---- MODULE Spec2Model ----
(***************************************************************************)
(* Model of the AFFiNE MCP server's document tools (create_doc,            *)
(* append_block, read_doc, delete_doc) and of the acknowledgement based    *)
(* socket protocol they drive (ws.ts).                                     *)
(*                                                                         *)
(* A tool call is an async handler: it runs from one await to the next.    *)
(* Each action below is one such run: the event that resumes the handler   *)
(* (connect event, acknowledgement, timer) together with everything the    *)
(* handler does until it suspends again or returns, its finally block      *)
(* included.  The server and the network are the environment.              *)
(***************************************************************************)
EXTENDS Integers, Sequences, FiniteSets, TLC

VARIABLES
  inp,      \* inp[c]    : the arguments of client c's tool call
  pc,       \* pc[c]     : "idle", "connect", a request the handler awaits, or "returned"
  step,     \* step[c]   : how many requests of the handler's plan were emitted
  result,   \* result[c] : "none", "ok" or "fail"
  failAt,   \* failAt[c] : where a failed call failed: "validate", "connect",
            \*             "resolve", or the request that failed
  err,      \* err[c]    : the error a failed call threw
  sock,     \* sock[c]   : "none", "connecting", "connected", "closed"
  trace,    \* trace[c]  : history of the socket's events
  wire,     \* wire[c]   : requests emitted on the socket, not yet handled by the server
  acks,     \* acks[c]   : acknowledgements sent by the server, not yet delivered
  ldoc,     \* ldoc[c]   : the handler's in-memory Y.Doc
  prevSV,   \* prevSV[c] : the state vector the handler captured
  yid,      \* yid[c]    : the Yjs clientID the handler's Y.Doc drew
  out,      \* out[c]    : what a successful call returned
  sdocs,    \* sdocs[d]  : the server's copy of document d
  applied   \* applied[c]: the updates of client c the server has applied

vars == <<inp, pc, step, result, failAt, err, sock, trace, wire, acks, ldoc, prevSV,
          yid, out, sdocs, applied>>

-----------------------------------------------------------------------------
(* Identifiers.  generateId() draws 10 random characters; the model gives  *)
(* every call its own identifiers <<client, n>>, which is the no-collision *)
(* case the code relies on.                                                *)

Clients == {"A", "B"}

NoBlock == <<"-", 0>>
Meta    == <<"meta", 0>>      \* the owner of the catalog sequence meta.pages
WsDoc   == <<"ws", 0>>        \* the workspace root document (docId = workspaceId)
PageDoc == <<"doc", 0>>       \* a page document that exists before the calls
PG      == <<"doc", 1>>       \* its blocks
SF      == <<"doc", 2>>
NT      == <<"doc", 3>>
P1      == <<"doc", 4>>
P2      == <<"doc", 5>>
P3      == <<"doc", 6>>
Ghost   == <<"doc", 9>>       \* an id that names no block
Blank   == <<" ", 0>>         \* an id made of white space

GenId(c, n) == <<c, n>>
NewDocId(c) == GenId(c, 0)
DocIds == {WsDoc, PageDoc} \cup {NewDocId(c) : c \in Clients}

NoItem == <<0, 0>>

(* An entry of a sys:children array is a bare id or, in the older encoding, *)
(* a one-element array that wraps the id.                                  *)
Wrapped(id) == <<"wrapped", id[2]>>
EntryIds(entry) == IF entry[1] = "wrapped" THEN <<<<"doc", entry[2]>>>> ELSE <<entry>>

-----------------------------------------------------------------------------
(* The Yjs document.  A replica is the integrated structure: the entries   *)
(* of the root map `blocks`, and every Y.Array that was set as a block's   *)
(* sys:children (or as meta.pages) with its list items.  Every entry       *)
(* carries the id <<clientID, clock>> of the Yjs item that wrote it; a     *)
(* block's text is its prop:title or prop:text.                            *)

EmptyDoc == [blocks |-> {}, arrs |-> {}]

(* blockVersion: the sys:version setSysFields writes.                      *)
blockVersion(flavour) ==
  CASE flavour = "affine:page" -> 2
    [] flavour = "affine:surface" -> 5
    [] OTHER -> 1

(* A block: sys:id, sys:flavour, sys:version, sys:parent, the item of its  *)
(* entry in the blocks map, its text (prop:title of a page), and the props *)
(* the properties are about: prop:type as <<name, heading level>>, and     *)
(* prop:checked as "true" or "false"; <<"", 0>>, "absent" and <<>> stand   *)
(* for a prop that is not set.                                             *)
Block(id, flavour, parent, item, text) ==
  [id |-> id, flavour |-> flavour, parent |-> parent, item |-> item, text |-> text,
   version |-> blockVersion(flavour), ptype |-> <<"", 0>>, checked |-> "absent",
   xywh |-> <<>>, background |-> <<>>]

YArray(owner, item) == [owner |-> owner, id |-> item, items |-> <<>>]

Item(id, val, ol, orr) == [id |-> id, val |-> val, ol |-> ol, orr |-> orr, del |-> FALSE]

SeqToSet(s) == {s[i] : i \in 1..Len(s)}

IndexOfItem(items, id) ==
  IF \E i \in 1..Len(items) : items[i].id = id
  THEN CHOOSE i \in 1..Len(items) : items[i].id = id
  ELSE 0

InsertAt(s, i, x) == SubSeq(s, 1, i) \o <<x>> \o SubSeq(s, i + 1, Len(s))

(* Yjs integrates a list item after its left origin, moving right over the *)
(* items that were inserted concurrently at the same place: an item with   *)
(* the same left origin and a smaller clientID stays to the left.          *)
RECURSIVE ScanLeft(_, _, _, _, _, _)
ScanLeft(items, it, p, rb, o, left) ==
  IF o >= rb THEN left
  ELSE LET x == items[o] IN
    IF x.ol = it.ol
    THEN IF x.id[1] < it.id[1] THEN ScanLeft(items, it, p, rb, o + 1, o)
         ELSE IF x.orr = it.orr THEN left
         ELSE ScanLeft(items, it, p, rb, o + 1, left)
    ELSE IF x.ol # NoItem /\ IndexOfItem(items, x.ol) > p
    THEN IF IndexOfItem(items, x.ol) <= left
         THEN ScanLeft(items, it, p, rb, o + 1, o)
         ELSE ScanLeft(items, it, p, rb, o + 1, left)
    ELSE left

Integrate(items, it) ==
  IF IndexOfItem(items, it.id) > 0 THEN items
  ELSE LET p  == IndexOfItem(items, it.ol)
           rb == IF IndexOfItem(items, it.orr) > 0
                 THEN IndexOfItem(items, it.orr) ELSE Len(items) + 1
       IN InsertAt(items, ScanLeft(items, it, p, rb, p + 1, p), it)

(* The entries a reader of the Y.Array sees: deleted items are skipped.    *)
Live(items) == SelectSeq(items, LAMBDA x : ~x.del)
Values(items) == [i \in 1..Len(Live(items)) |-> Live(items)[i].val]

(* Y.Array.push: the new item's left origin is the last item of the list.  *)
YPush(items, id, val) ==
  Append(items, Item(id, val,
                     IF Len(items) = 0 THEN NoItem ELSE items[Len(items)].id,
                     NoItem))

(* Y.Array.insert(index, ..): after the index-th live item (0: at the      *)
(* start); the item that was its right neighbour is the right origin.      *)
YInsert(items, index, id, val) ==
  LET at == IF index = 0 THEN 0
            ELSE IndexOfItem(items, Live(items)[index].id)
      ol == IF at = 0 THEN NoItem ELSE items[at].id
      orr == IF at < Len(items) THEN items[at + 1].id ELSE NoItem
  IN InsertAt(items, at, Item(id, val, ol, orr))

(* Y.Array.delete(index, 1): the index-th live item (0-based) is deleted.  *)
YDelete(items, index) ==
  LET victim == Live(items)[index + 1].id
  IN [i \in 1..Len(items) |->
        IF items[i].id = victim THEN [items[i] EXCEPT !.del = TRUE] ELSE items[i]]

(* childIdsFrom: the ids a sys:children array names, array entries         *)
(* flattened.                                                              *)
RECURSIVE childIdsFrom(_)
childIdsFrom(children) ==
  IF children = <<>> THEN <<>>
  ELSE EntryIds(Head(children)) \o childIdsFrom(Tail(children))

(* Y.Map.get(key) when several Y.Arrays were set for the same key of the   *)
(* same map by calls that did not see each other: all were written with no *)
(* left origin, so the one of the highest clientID is the map's value and  *)
(* the others, with their content, are deleted.                            *)
Candidates(r, owner) == {a \in r.arrs : a.owner = owner}
HasArr(r, owner) == Candidates(r, owner) # {}
ArrOf(r, owner) ==
  CHOOSE a \in Candidates(r, owner) :
    \A b \in Candidates(r, owner) : b.id[1] <= a.id[1]

ChildrenOf(r, owner) ==
  IF HasArr(r, owner) THEN Values(ArrOf(r, owner).items) ELSE <<>>

(* Y.encodeStateVector: which items the replica holds.                     *)
EncodeStateVector(r) ==
  {b.item : b \in r.blocks} \cup {a.id : a \in r.arrs}
    \cup UNION {{x.id : x \in SeqToSet(a.items)} : a \in r.arrs}

RECURSIVE ByClock(_)
ByClock(S) ==
  IF S = {} THEN <<>>
  ELSE LET m == CHOOSE x \in S : \A y \in S : x.it.id[2] <= y.it.id[2]
       IN <<m>> \o ByClock(S \ {m})

(* A variant of EncodeStateAsUpdate that ignores the state vector.         *)
EncodeWholeState(r, sv) ==
  [blocks |-> r.blocks,
   arrs   |-> r.arrs,
   ins    |-> <<>>,
   dels   |-> UNION {{x.id : x \in {y \in SeqToSet(a.items) : y.del}} : a \in r.arrs}]

(* Y.encodeStateAsUpdate(doc, sv): the items sv does not cover (a Y.Array  *)
(* that sv does not cover travels with its items), and the delete set.     *)
EncodeStateAsUpdate(r, sv) ==
  [blocks |-> {b \in r.blocks : b.item \notin sv},
   arrs   |-> {a \in r.arrs : a.id \notin sv},
   ins    |-> ByClock(UNION {{[arr |-> a.id, it |-> x] :
                                x \in {y \in SeqToSet(a.items) : y.id \notin sv}} :
                             a \in {b \in r.arrs : b.id \in sv}}),
   dels   |-> UNION {{x.id : x \in {y \in SeqToSet(a.items) : y.del}} : a \in r.arrs}]

EmptyUpdate == [blocks |-> {}, arrs |-> {}, ins |-> <<>>, dels |-> {}]

RECURSIVE IntegrateAll(_, _)
IntegrateAll(arrs, ins) ==
  IF ins = <<>> THEN arrs
  ELSE IntegrateAll(
         {IF a.id = Head(ins).arr
          THEN [a EXCEPT !.items = Integrate(a.items, Head(ins).it)] ELSE a : a \in arrs},
         Tail(ins))

MarkDeleted(arrs, dels) ==
  {[a EXCEPT !.items = [i \in 1..Len(a.items) |->
        IF a.items[i].id \in dels THEN [a.items[i] EXCEPT !.del = TRUE]
        ELSE a.items[i]]] : a \in arrs}

(* Y.applyUpdate: merge an update into a replica.                          *)
ApplyUpdate(r, u) ==
  LET known == {a.id : a \in r.arrs}
      arrs1 == r.arrs \cup {a \in u.arrs : a.id \notin known}
  IN [blocks |-> r.blocks \cup {b \in u.blocks : b.item \notin {x.item : x \in r.blocks}},
      arrs   |-> MarkDeleted(IntegrateAll(arrs1, u.ins), u.dels)]

-----------------------------------------------------------------------------
(* append_block: the block kinds and the normalization of a request.       *)

APPEND_BLOCK_CANONICAL_TYPE_VALUES ==
  {"paragraph", "heading", "quote", "list", "code", "divider", "callout", "latex",
   "table", "bookmark", "image", "attachment", "embed_youtube", "embed_github",
   "embed_figma", "embed_loom", "embed_html", "embed_linked_doc", "embed_synced_doc",
   "embed_iframe", "database", "data_view", "surface_ref", "frame", "edgeless_text",
   "note"}

APPEND_BLOCK_LEGACY_ALIAS_MAP ==
  [heading1 |-> "heading", heading2 |-> "heading", heading3 |-> "heading",
   bulleted_list |-> "list", numbered_list |-> "list", todo |-> "list"]

APPEND_BLOCK_LIST_STYLE_VALUES == {"bulleted", "numbered", "todo"}
APPEND_BLOCK_BOOKMARK_STYLE_VALUES == {"vertical", "horizontal", "list", "cube", "citation"}

(* Strings are drawn from a few shapes: "" (empty), " " (blank), a plain   *)
(* word, a word in capitals or with blanks around it, and an absolute URL. *)
Trim(s) ==
  CASE s = " " -> ""
    [] s = " paragraph " -> "paragraph"
    [] s = " x " -> "x"
    [] OTHER -> s

ToLowerCase(s) ==
  CASE s = "PARAGRAPH" -> "paragraph"
    [] s = "Heading2" -> "heading2"
    [] s = "TODO" -> "todo"
    [] OTHER -> s

IsUrl(s) == s \in {"https://example.com", "http://x"}

(* normalizeBlockTypeInput: ok = FALSE is the thrown "Unsupported          *)
(* append_block type" error.                                               *)
normalizeBlockTypeInput(typeInput) ==
  LET key == ToLowerCase(Trim(typeInput)) IN
  IF key \in APPEND_BLOCK_CANONICAL_TYPE_VALUES
  THEN [ok |-> TRUE, type |-> key, legacyType |-> "", headingLevelFromAlias |-> 0,
        listStyleFromAlias |-> ""]
  ELSE IF key \in DOMAIN APPEND_BLOCK_LEGACY_ALIAS_MAP
  THEN [ok |-> TRUE, type |-> APPEND_BLOCK_LEGACY_ALIAS_MAP[key], legacyType |-> key,
        headingLevelFromAlias |->
          CASE key = "heading1" -> 1 [] key = "heading2" -> 2 [] key = "heading3" -> 3
            [] OTHER -> 0,
        listStyleFromAlias |->
          CASE key = "bulleted_list" -> "bulleted" [] key = "numbered_list" -> "numbered"
            [] key = "todo" -> "todo" [] OTHER -> ""]
  ELSE [ok |-> FALSE, type |-> "", legacyType |-> "", headingLevelFromAlias |-> 0,
        listStyleFromAlias |-> ""]

(* A placement: an absent id is NoBlock, an absent index is -1; `given`    *)
(* tells whether the request carried a placement object at all.            *)
NoPlacement ==
  [given |-> FALSE, parentId |-> NoBlock, afterBlockId |-> NoBlock,
   beforeBlockId |-> NoBlock, index |-> -1]

Placement(parentId, afterBlockId, beforeBlockId, index) ==
  [given |-> TRUE, parentId |-> parentId, afterBlockId |-> afterBlockId,
   beforeBlockId |-> beforeBlockId, index |-> index]

(* id?.trim(): an id of white space only counts as not given.              *)
TrimId(id) == IF id = Blank THEN NoBlock ELSE id

(* A variant of normalizePlacement that lets an index pass together with a *)
(* reference.                                                              *)
normalizePlacementLax(placement) ==
  LET hasAfter  == TrimId(placement.afterBlockId) # NoBlock
      hasBefore == TrimId(placement.beforeBlockId) # NoBlock
  IN IF ~placement.given THEN [err |-> "", placement |-> NoPlacement]
     ELSE IF hasAfter /\ hasBefore
     THEN [err |-> "after and before are mutually exclusive", placement |-> NoPlacement]
     ELSE IF placement.index # -1 /\ placement.index < 0
     THEN [err |-> "index must be >= 0", placement |-> NoPlacement]
     ELSE IF TrimId(placement.parentId) = NoBlock /\ ~hasAfter /\ ~hasBefore
             /\ placement.index = -1
     THEN [err |-> "", placement |-> NoPlacement]
     ELSE [err |-> "", placement |->
             Placement(TrimId(placement.parentId), TrimId(placement.afterBlockId),
                       TrimId(placement.beforeBlockId), placement.index)]

(* normalizePlacement: err # "" is the thrown error.  A placement that     *)
(* names nothing normalizes to undefined.                                  *)
normalizePlacement(placement) ==
  LET hasAfter  == TrimId(placement.afterBlockId) # NoBlock
      hasBefore == TrimId(placement.beforeBlockId) # NoBlock
  IN IF ~placement.given THEN [err |-> "", placement |-> NoPlacement]
     ELSE IF hasAfter /\ hasBefore
     THEN [err |-> "after and before are mutually exclusive", placement |-> NoPlacement]
     ELSE IF placement.index # -1 /\ placement.index < 0
     THEN [err |-> "index must be >= 0", placement |-> NoPlacement]
     ELSE IF placement.index # -1 /\ (hasAfter \/ hasBefore)
     THEN [err |-> "index cannot be used with after/before", placement |-> NoPlacement]
     ELSE IF TrimId(placement.parentId) = NoBlock /\ ~hasAfter /\ ~hasBefore
             /\ placement.index = -1
     THEN [err |-> "", placement |-> NoPlacement]
     ELSE [err |-> "", placement |->
             Placement(TrimId(placement.parentId), TrimId(placement.afterBlockId),
                       TrimId(placement.beforeBlockId), placement.index)]

(* A request (AppendBlockInput).  `given` holds the names of the optional  *)
(* fields the request carries; the value of a field that is not given is   *)
(* not read.  strict is "absent", "true" or "false".                       *)
RawDefaults ==
  [kind |-> "append_block", wsGiven |-> TRUE, docId |-> PageDoc, type |-> "paragraph", strict |-> "absent",
   placement |-> NoPlacement, given |-> {},
   text |-> "", url |-> "", pageId |-> "", iframeUrl |-> "", html |-> "", design |-> "",
   reference |-> "", refFlavour |-> "", width |-> 100, height |-> 100,
   background |-> "", sourceId |-> "", name |-> "", mimeType |-> "", size |-> 0,
   embed |-> FALSE, rows |-> 3, columns |-> 3, latex |-> "", checked |-> FALSE,
   language |-> "", caption |-> "", level |-> 1, style |-> "bulleted",
   bookmarkStyle |-> "horizontal", title |-> "", content |-> ""]

(* A variant of Has that takes every optional field for absent.           *)
HasNever(raw, f) == FALSE

Has(raw, f) == f \in raw.given
Max(a, b) == IF a > b THEN a ELSE b
Min(a, b) == IF a < b THEN a ELSE b
OrElse(s, d) == IF s = "" THEN d ELSE s
TooLong(s) == s = "a-language-name-longer-than-sixty-four-characters"

(* The first check of validateNormalizedAppendBlockInput that throws, ""   *)
(* when none does.                                                         *)
RECURSIVE FirstError(_)
FirstError(checks) ==
  IF checks = <<>> THEN ""
  ELSE IF Head(checks)[1] THEN Head(checks)[2] ELSE FirstError(Tail(checks))

validateNormalizedAppendBlockInput(n, raw) ==
  LET t == n.type
      urlAllowed == t \in {"bookmark", "embed_youtube", "embed_github", "embed_figma",
                           "embed_loom", "embed_iframe"}
      isEmbed == t \in {"embed_youtube", "embed_github", "embed_figma", "embed_loom",
                        "embed_html", "embed_linked_doc", "embed_synced_doc", "embed_iframe"}
      allowsCaption == t \in {"bookmark", "image", "attachment", "surface_ref"} \/ isEmbed
      hasSource == t \in {"image", "attachment"}
      sized == t \in {"frame", "edgeless_text", "note"}
  IN FirstError(<<
    <<t = "heading" /\ (n.headingLevel < 1 \/ n.headingLevel > 6), "heading level">>,
    <<t # "heading" /\ Has(raw, "level") /\ n.strict, "level">>,
    <<t = "list" /\ n.listStyle \notin APPEND_BLOCK_LIST_STYLE_VALUES, "list style">>,
    <<t = "list" /\ n.listStyle # "todo" /\ Has(raw, "checked") /\ n.strict, "checked">>,
    <<t # "list" /\ Has(raw, "style") /\ n.strict, "style">>,
    <<t # "list" /\ Has(raw, "checked") /\ n.strict, "checked">>,
    <<t # "code" /\ Has(raw, "language") /\ n.strict, "language">>,
    <<t # "code" /\ Has(raw, "caption") /\ ~allowsCaption /\ n.strict, "caption">>,
    <<t = "code" /\ TooLong(n.language), "language too long">>,
    <<t = "divider" /\ Has(raw, "text") /\ raw.text # "" /\ n.strict, "divider text">>,
    <<urlAllowed /\ n.url = "", "url required">>,
    <<urlAllowed /\ ~IsUrl(n.url), "url invalid">>,
    <<t = "bookmark" /\ n.bookmarkStyle \notin APPEND_BLOCK_BOOKMARK_STYLE_VALUES,
      "bookmark style">>,
    <<t # "bookmark" /\ Has(raw, "bookmarkStyle") /\ n.strict, "bookmarkStyle">>,
    <<t # "bookmark" /\ Has(raw, "url") /\ ~urlAllowed /\ n.strict, "url">>,
    <<hasSource /\ n.sourceId = "", "sourceId required">>,
    <<t = "attachment" /\ (n.name = "" \/ n.mimeType = ""), "name and mimeType required">>,
    <<~hasSource /\ Has(raw, "sourceId") /\ n.strict, "sourceId">>,
    <<~hasSource /\ ~(Has(raw, "sourceId") /\ n.strict)
        /\ (Has(raw, "name") \/ Has(raw, "mimeType") \/ Has(raw, "embed") \/ Has(raw, "size"))
        /\ n.strict, "name/mimeType/embed/size">>,
    <<t = "latex" /\ n.latex = "" /\ n.strict, "latex required">>,
    <<t # "latex" /\ Has(raw, "latex") /\ n.strict, "latex">>,
    <<t \in {"embed_linked_doc", "embed_synced_doc"} /\ n.pageId = "", "pageId required">>,
    <<t \notin {"embed_linked_doc", "embed_synced_doc"} /\ Has(raw, "pageId") /\ n.strict,
      "pageId">>,
    <<t = "embed_html" /\ n.html = "" /\ n.design = "" /\ n.strict, "html or design required">>,
    <<t # "embed_html" /\ (Has(raw, "html") \/ Has(raw, "design")) /\ n.strict, "html/design">>,
    <<t = "embed_iframe" /\ Has(raw, "iframeUrl") /\ n.iframeUrl = "" /\ n.strict,
      "iframeUrl empty">>,
    <<t # "embed_iframe" /\ Has(raw, "iframeUrl") /\ n.strict, "iframeUrl">>,
    <<t = "surface_ref" /\ n.reference = "", "reference required">>,
    <<t = "surface_ref" /\ n.refFlavour = "", "refFlavour required">>,
    <<t # "surface_ref" /\ (Has(raw, "reference") \/ Has(raw, "refFlavour")) /\ n.strict,
      "reference/refFlavour">>,
    <<sized /\ (n.width < 1 \/ n.width > 10000), "width">>,
    <<sized /\ (n.height < 1 \/ n.height > 10000), "height">>,
    <<~sized /\ (Has(raw, "width") \/ Has(raw, "height")) /\ n.strict, "width/height">>,
    <<t \notin {"frame", "note"} /\ Has(raw, "background") /\ n.strict, "background">>,
    <<t = "table" /\ (n.rows < 1 \/ n.rows > 20), "rows">>,
    <<t = "table" /\ (n.columns < 1 \/ n.columns > 20), "columns">>,
    <<t # "table" /\ (Has(raw, "rows") \/ Has(raw, "columns")) /\ n.strict, "rows/columns">>
  >>)

(* normalizeAppendBlockInput: err # "" is the thrown error.                *)
normalizeAppendBlockInput(parsed) ==
  LET typeInfo == normalizeBlockTypeInput(parsed.type)
      pl == normalizePlacement(parsed.placement)
      n == [type |-> typeInfo.type,
            legacyType |-> typeInfo.legacyType,
            strict |-> parsed.strict # "false",
            placement |-> pl.placement,
            text |-> IF Has(parsed, "text") THEN parsed.text ELSE "",
            url |-> IF Has(parsed, "url") THEN Trim(parsed.url) ELSE "",
            pageId |-> IF Has(parsed, "pageId") THEN Trim(parsed.pageId) ELSE "",
            iframeUrl |-> IF Has(parsed, "iframeUrl") THEN Trim(parsed.iframeUrl) ELSE "",
            html |-> IF Has(parsed, "html") THEN parsed.html ELSE "",
            design |-> IF Has(parsed, "design") THEN parsed.design ELSE "",
            reference |-> IF Has(parsed, "reference") THEN Trim(parsed.reference) ELSE "",
            refFlavour |-> IF Has(parsed, "refFlavour") THEN Trim(parsed.refFlavour) ELSE "",
            width |-> IF Has(parsed, "width") THEN Max(1, parsed.width) ELSE 100,
            height |-> IF Has(parsed, "height") THEN Max(1, parsed.height) ELSE 100,
            background |-> IF Has(parsed, "background")
                           THEN OrElse(Trim(parsed.background), "transparent")
                           ELSE "transparent",
            sourceId |-> IF Has(parsed, "sourceId") THEN Trim(parsed.sourceId) ELSE "",
            name |-> IF Has(parsed, "name") THEN OrElse(Trim(parsed.name), "attachment")
                     ELSE "attachment",
            mimeType |-> IF Has(parsed, "mimeType")
                         THEN OrElse(Trim(parsed.mimeType), "application/octet-stream")
                         ELSE "application/octet-stream",
            size |-> IF Has(parsed, "size") THEN Max(0, parsed.size) ELSE 0,
            embed |-> Has(parsed, "embed") /\ parsed.embed,
            rows |-> IF Has(parsed, "rows") THEN parsed.rows ELSE 3,
            columns |-> IF Has(parsed, "columns") THEN parsed.columns ELSE 3,
            latex |-> IF Has(parsed, "latex") THEN Trim(parsed.latex) ELSE "",
            headingLevel |->
              Max(1, Min(6, IF Has(parsed, "level") THEN parsed.level
                            ELSE IF typeInfo.headingLevelFromAlias # 0
                            THEN typeInfo.headingLevelFromAlias ELSE 1)),
            listStyle |-> IF typeInfo.listStyleFromAlias # "" THEN typeInfo.listStyleFromAlias
                          ELSE IF Has(parsed, "style") THEN parsed.style ELSE "bulleted",
            bookmarkStyle |-> IF Has(parsed, "bookmarkStyle") THEN parsed.bookmarkStyle
                              ELSE "horizontal",
            checked |-> Has(parsed, "checked") /\ parsed.checked,
            language |-> IF Has(parsed, "language")
                         THEN OrElse(ToLowerCase(Trim(parsed.language)), "txt") ELSE "txt",
            caption |-> IF Has(parsed, "caption") THEN parsed.caption ELSE ""]
  IN IF ~typeInfo.ok THEN [err |-> "unsupported type", n |-> n]
     ELSE IF pl.err # "" THEN [err |-> pl.err, n |-> n]
     ELSE [err |-> validateNormalizedAppendBlockInput(n, parsed), n |-> n]

-----------------------------------------------------------------------------
(* The block tree of a document.  In the functions below c is the calling  *)
(* client (for generateId) and y the clientID of its Y.Doc; the n-th item  *)
(* a call writes into a document has the id <<y, n>>.                      *)

BlockIn(r, id) == \E b \in r.blocks : b.id = id

findBlockById(r, id) == CHOOSE b \in r.blocks : b.id = id

(* A Y.Map is iterated in the order its entries were integrated; an update *)
(* is decoded by descending clientID and ascending clock.                  *)
IteratedBefore(i, j) == i[1] > j[1] \/ (i[1] = j[1] /\ i[2] <= j[2])

findBlockIdByFlavour(r, flavour) ==
  LET S == {b \in r.blocks : b.flavour = flavour} IN
  IF S = {} THEN NoBlock
  ELSE (CHOOSE b \in S : \A x \in S : IteratedBefore(b.item, x.item)).id

SetItems(r, arrId, items) ==
  [r EXCEPT !.arrs = {IF a.id = arrId THEN [a EXCEPT !.items = items] ELSE a : a \in @}]

(* page.get("sys:children"), created and set when it is no Y.Array, then   *)
(* pageChildren.push([childId]).                                           *)
PushPageChild(r, pageId, childId, y) ==
  LET r1 == IF HasArr(r, pageId) THEN r
            ELSE [r EXCEPT !.arrs = @ \cup {YArray(pageId, <<y, 3>>)}]
      a  == ArrOf(r1, pageId)
  IN SetItems(r1, a.id, YPush(a.items, <<y, 4>>, childId))

(* The props ensureNoteBlock gives the note it creates: prop:xywh and the  *)
(* light and dark colours of prop:background.                              *)
Created(b) ==
  IF b.flavour = "affine:note"
  THEN [b EXCEPT !.xywh = <<0, 0, 800, 95>>, !.background = <<"#ffffff", "#252525">>]
  ELSE b

(* A variant of EnsureBlock that looks for the page block first.           *)
EnsureBlockPageFirst(r, c, y, flavour) ==
  LET existing == findBlockIdByFlavour(r, flavour)
      pageId   == findBlockIdByFlavour(r, "affine:page")
      newId    == GenId(c, 1)
      r1 == [blocks |-> r.blocks \cup {Created(Block(newId, flavour, pageId, <<y, 1>>, ""))},
             arrs   |-> r.arrs \cup {YArray(newId, <<y, 2>>)}]
  IN IF pageId = NoBlock THEN [err |-> "no page block", id |-> NoBlock, r |-> r]
     ELSE IF existing # NoBlock THEN [err |-> "", id |-> existing, r |-> r]
     ELSE [err |-> "", id |-> newId, r |-> PushPageChild(r1, pageId, newId, y)]

EnsureBlock(r, c, y, flavour) ==
  LET existing == findBlockIdByFlavour(r, flavour)
      pageId   == findBlockIdByFlavour(r, "affine:page")
      newId    == GenId(c, 1)
      r1 == [blocks |-> r.blocks \cup {Created(Block(newId, flavour, pageId, <<y, 1>>, ""))},
             arrs   |-> r.arrs \cup {YArray(newId, <<y, 2>>)}]
  IN IF existing # NoBlock THEN [err |-> "", id |-> existing, r |-> r]
     ELSE IF pageId = NoBlock THEN [err |-> "no page block", id |-> NoBlock, r |-> r]
     ELSE [err |-> "", id |-> newId, r |-> PushPageChild(r1, pageId, newId, y)]

ensureNoteBlock(r, c, y) == EnsureBlock(r, c, y, "affine:note")

ensureSurfaceBlock(r, c, y) == EnsureBlock(r, c, y, "affine:surface")

(* A variant of ensureChildrenArray that always sets a new Y.Array.        *)
ensureChildrenArrayAnew(r, blockId, y) ==
  [r EXCEPT !.arrs = @ \cup {YArray(blockId, <<y, 5>>)}]

(* ensureChildrenArray: the block's sys:children, created and set when it  *)
(* is no Y.Array.                                                          *)
ensureChildrenArray(r, blockId, y) ==
  IF HasArr(r, blockId) THEN r
  ELSE [r EXCEPT !.arrs = @ \cup {YArray(blockId, <<y, 5>>)}]

(* indexOfChild: 0-based position of the first entry naming blockId, -1    *)
(* when there is none.                                                     *)
Names(entry, blockId) == \E k \in DOMAIN EntryIds(entry) : EntryIds(entry)[k] = blockId

(* The 0-based position of the first entry equal to v, -1 when none is.    *)
IndexOfEntry(entries, v) ==
  IF \E i \in 1..Len(entries) : entries[i] = v
  THEN (CHOOSE i \in 1..Len(entries) :
          entries[i] = v /\ \A j \in 1..(i - 1) : entries[j] # v) - 1
  ELSE -1

(* A variant of indexOfChild that knows bare ids only.                     *)
indexOfBareChild(children, blockId) == IndexOfEntry(children, blockId)

indexOfChild(children, blockId) ==
  IF \E i \in 1..Len(children) : Names(children[i], blockId)
  THEN (CHOOSE i \in 1..Len(children) :
          Names(children[i], blockId) /\ \A j \in 1..(i - 1) : ~Names(children[j], blockId)) - 1
  ELSE -1

(* A variant of ContainmentError that accepts every parent.                *)
NoContainmentError(parentFlavour, type) == ""

(* A variant of ContainmentError with the rules of page and surface only.  *)
ParentRulesOnly(parentFlavour, type) ==
  IF parentFlavour = "affine:page" /\ type # "note" THEN "not under page"
  ELSE IF parentFlavour = "affine:surface" /\ type \notin {"frame", "edgeless_text"}
  THEN "not under surface"
  ELSE ""

ContainmentError(parentFlavour, type) ==
  IF parentFlavour = "affine:page" /\ type # "note" THEN "not under page"
  ELSE IF parentFlavour = "affine:surface" /\ type \notin {"frame", "edgeless_text"}
  THEN "not under surface"
  ELSE IF type = "note" /\ parentFlavour # "affine:page" THEN "note must be under page"
  ELSE IF type \in {"frame", "edgeless_text"} /\ parentFlavour # "affine:surface"
  THEN "must be under surface"
  ELSE ""

(* resolveInsertContext: err # "" is the thrown error; r is the in-memory  *)
(* document as the function leaves it.                                     *)
InsertFail(e, doc) ==
  [err |-> e, r |-> doc, parentId |-> NoBlock, arr |-> NoItem, insertIndex |-> 0]

ReferenceOf(pl) ==
  IF pl.afterBlockId # NoBlock THEN pl.afterBlockId ELSE pl.beforeBlockId

(* The parent: the reference block's parent, the named parent, or the      *)
(* container the kind implies (created when the document has none).        *)
ResolveParent(r, n, c, y) ==
  IF ReferenceOf(n.placement) # NoBlock
  THEN IF ~BlockIn(r, ReferenceOf(n.placement))
       THEN [err |-> "reference not found", id |-> NoBlock, r |-> r]
       ELSE IF findBlockById(r, ReferenceOf(n.placement)).parent = NoBlock
       THEN [err |-> "reference has no parent", id |-> NoBlock, r |-> r]
       ELSE [err |-> "", id |-> findBlockById(r, ReferenceOf(n.placement)).parent, r |-> r]
  ELSE IF n.placement.parentId # NoBlock
  THEN [err |-> "", id |-> n.placement.parentId, r |-> r]
  ELSE IF n.type \in {"frame", "edgeless_text"} THEN ensureSurfaceBlock(r, c, y)
  ELSE IF n.type = "note"
  THEN [err |-> IF findBlockIdByFlavour(r, "affine:page") = NoBlock
                THEN "no page block" ELSE "",
        id |-> findBlockIdByFlavour(r, "affine:page"), r |-> r]
  ELSE ensureNoteBlock(r, c, y)

(* A variant of ResolveIndex that clamps an index beyond the end in strict *)
(* mode too.                                                               *)
ResolveIndexClamping(r, parentId, n, children, idx) ==
  LET pl == n.placement IN
  IF (pl.afterBlockId # NoBlock \/ pl.beforeBlockId # NoBlock) /\ idx < 0
  THEN InsertFail("reference is not a child of its parent", r)
  ELSE [err |-> "", r |-> r, parentId |-> parentId, arr |-> ArrOf(r, parentId).id,
        insertIndex |->
          IF pl.afterBlockId # NoBlock THEN idx + 1
          ELSE IF pl.beforeBlockId # NoBlock THEN idx
          ELSE IF pl.parentId # NoBlock /\ pl.index # -1 THEN Min(pl.index, Len(children))
          ELSE Len(children)]

(* The insertion index among the parent's children.                        *)
ResolveIndex(r, parentId, n, children, idx) ==
  LET pl == n.placement IN
  IF (pl.afterBlockId # NoBlock \/ pl.beforeBlockId # NoBlock) /\ idx < 0
  THEN InsertFail("reference is not a child of its parent", r)
  ELSE IF pl.afterBlockId = NoBlock /\ pl.beforeBlockId = NoBlock
          /\ pl.parentId # NoBlock /\ pl.index # -1
          /\ pl.index > Len(children) /\ n.strict
  THEN InsertFail("index out of range", r)
  ELSE [err |-> "", r |-> r, parentId |-> parentId, arr |-> ArrOf(r, parentId).id,
        insertIndex |->
          IF pl.afterBlockId # NoBlock THEN idx + 1
          ELSE IF pl.beforeBlockId # NoBlock THEN idx
          ELSE IF pl.parentId # NoBlock /\ pl.index # -1 THEN Min(pl.index, Len(children))
          ELSE Len(children)]

ResolveChildren(r, parentId, n) ==
  ResolveIndex(r, parentId, n, ChildrenOf(r, parentId),
               indexOfChild(ChildrenOf(r, parentId), ReferenceOf(n.placement)))

ResolveUnder(found, n, y) ==
  IF found.err # "" THEN InsertFail(found.err, found.r)
  ELSE IF ~BlockIn(found.r, found.id) THEN InsertFail("parent not found", found.r)
  ELSE IF n.strict /\ ContainmentError(findBlockById(found.r, found.id).flavour, n.type) # ""
  THEN InsertFail(ContainmentError(findBlockById(found.r, found.id).flavour, n.type), found.r)
  ELSE ResolveChildren(ensureChildrenArray(found.r, found.id, y), found.id, n)

resolveInsertContext(r, n, c, y) == ResolveUnder(ResolveParent(r, n, c, y), n, y)

(* createBlock: the sys:flavour of the block built for a kind.             *)
FlavourOf(type) ==
  CASE type \in {"paragraph", "heading", "quote"} -> "affine:paragraph"
    [] type \in {"database", "data_view"} -> "affine:database"
    [] type = "embed_youtube" -> "affine:embed-youtube"
    [] type = "embed_github" -> "affine:embed-github"
    [] type = "embed_figma" -> "affine:embed-figma"
    [] type = "embed_loom" -> "affine:embed-loom"
    [] type = "embed_html" -> "affine:embed-html"
    [] type = "embed_linked_doc" -> "affine:embed-linked-doc"
    [] type = "embed_synced_doc" -> "affine:embed-synced-doc"
    [] type = "embed_iframe" -> "affine:embed-iframe"
    [] type = "surface_ref" -> "affine:surface-ref"
    [] type = "edgeless_text" -> "affine:edgeless-text"
    [] type = "list" -> "affine:list"
    [] type = "code" -> "affine:code"
    [] type = "divider" -> "affine:divider"
    [] type = "callout" -> "affine:callout"
    [] type = "latex" -> "affine:latex"
    [] type = "table" -> "affine:table"
    [] type = "bookmark" -> "affine:bookmark"
    [] type = "image" -> "affine:image"
    [] type = "attachment" -> "affine:attachment"
    [] type = "frame" -> "affine:frame"
    [] type = "note" -> "affine:note"

(* A variant of Built that stores the requested checked value on a list of *)
(* any style.                                                              *)
BuiltAnyChecked(b, n) ==
  IF n.type = "list"
  THEN [b EXCEPT !.ptype = <<n.listStyle, 0>>,
                 !.checked = IF n.checked THEN "true" ELSE "false"]
  ELSE b

(* createBlock: the geometry and background of a frame, an edgeless text   *)
(* or a note come from the request; prop:type of a paragraph, heading,     *)
(* quote or list, and prop:checked of a list.                              *)
Built(b, n) ==
  IF n.type \in {"frame", "note"}
  THEN [b EXCEPT !.xywh = <<0, 0, n.width, n.height>>, !.background = <<n.background>>]
  ELSE IF n.type = "edgeless_text" THEN [b EXCEPT !.xywh = <<0, 0, n.width, n.height>>]
  ELSE IF n.type = "heading" THEN [b EXCEPT !.ptype = <<"h", n.headingLevel>>]
  ELSE IF n.type = "quote" THEN [b EXCEPT !.ptype = <<"quote", 0>>]
  ELSE IF n.type = "paragraph" THEN [b EXCEPT !.ptype = <<"text", 0>>]
  ELSE IF n.type = "list"
  THEN [b EXCEPT !.ptype = <<n.listStyle, 0>>,
                 !.checked = IF n.listStyle = "todo" /\ n.checked THEN "true" ELSE "false"]
  ELSE b

(* appendBlockInternal between the load and the push: the snapshot is in   *)
(* the document; resolve the placement, build the block, link it.          *)
(* A variant of InsertChild that leaves the parent's children alone.      *)
InsertChildNowhere(r, arrId, items, index, blockId, y) == r

InsertChild(r, arrId, items, index, blockId, y) ==
  SetItems(r, arrId,
           IF index >= Len(Live(items)) THEN YPush(items, <<y, 8>>, blockId)
           ELSE YInsert(items, index, <<y, 8>>, blockId))

(* A variant of LinkBlock that builds the block before it looks at the     *)
(* outcome of the placement resolution.                                    *)
LinkBlockBuildFirst(ctx, n, blockId, y) ==
  IF ctx.err # ""
  THEN [err |-> ctx.err, blockId |-> NoBlock,
        r |-> [ctx.r EXCEPT !.blocks = @ \cup
                 {Built(Block(blockId, FlavourOf(n.type), ctx.parentId, <<y, 6>>, n.text), n)}]]
  ELSE [err |-> "", blockId |-> blockId,
        r |-> InsertChild(
                [blocks |-> ctx.r.blocks \cup
                              {Built(Block(blockId, FlavourOf(n.type), ctx.parentId,
                                           <<y, 6>>, n.text), n)},
                 arrs   |-> ctx.r.arrs \cup {YArray(blockId, <<y, 7>>)}],
                ctx.arr, ArrOf(ctx.r, ctx.parentId).items, ctx.insertIndex, blockId, y)]

LinkBlock(ctx, n, blockId, y) ==
  IF ctx.err # "" THEN [err |-> ctx.err, r |-> ctx.r, blockId |-> NoBlock]
  ELSE [err |-> "", blockId |-> blockId,
        r |-> InsertChild(
                [blocks |-> ctx.r.blocks \cup
                              {Built(Block(blockId, FlavourOf(n.type), ctx.parentId,
                                           <<y, 6>>, n.text), n)},
                 arrs   |-> ctx.r.arrs \cup {YArray(blockId, <<y, 7>>)}],
                ctx.arr, ArrOf(ctx.r, ctx.parentId).items, ctx.insertIndex, blockId, y)]

(* What appendBlockInternal returns for a request it has appended; a       *)
(* legacyType of "" stands for null.                                       *)
AppendResult(n) ==
  [appended |-> TRUE, flavour |-> FlavourOf(n.type), normalizedType |-> n.type,
   legacyType |-> n.legacyType]

AppendToDoc(r, n, c, y) == LinkBlock(resolveInsertContext(r, n, c, y), n, GenId(c, 2), y)

(* readDocHandler: the rows of the blocks in the order visit reaches them: *)
(* from the page (or else the first note) down the children, then every    *)
(* block not yet visited, in the order of the blocks map.  A page has no   *)
(* prop:text; its text field here is its prop:title.                       *)
RECURSIVE InMapOrder(_)
InMapOrder(S) ==
  IF S = {} THEN <<>>
  ELSE LET b == CHOOSE b \in S : \A x \in S : IteratedBefore(b.item, x.item)
       IN <<b.id>> \o InMapOrder(S \ {b})

RECURSIVE visit(_, _, _, _)
visit(r, todo, visited, rows) ==
  IF todo = <<>> THEN rows
  ELSE IF Head(todo) \in visited THEN visit(r, Tail(todo), visited, rows)
  ELSE IF ~BlockIn(r, Head(todo))
  THEN visit(r, Tail(todo), visited \cup {Head(todo)}, rows)
  ELSE visit(r, childIdsFrom(ChildrenOf(r, Head(todo))) \o Tail(todo),
             visited \cup {Head(todo)},
             Append(rows,
                    [id |-> Head(todo),
                     parentId |-> findBlockById(r, Head(todo)).parent,
                     flavour |-> findBlockById(r, Head(todo)).flavour,
                     text |-> IF findBlockById(r, Head(todo)).flavour = "affine:page"
                              THEN "" ELSE findBlockById(r, Head(todo)).text,
                     childIds |-> childIdsFrom(ChildrenOf(r, Head(todo)))]))

blockRows(r) ==
  visit(r,
        (IF findBlockIdByFlavour(r, "affine:page") # NoBlock
         THEN <<findBlockIdByFlavour(r, "affine:page")>>
         ELSE IF findBlockIdByFlavour(r, "affine:note") # NoBlock
         THEN <<findBlockIdByFlavour(r, "affine:note")>>
         ELSE <<>>) \o InMapOrder(r.blocks),
        {}, <<>>)

(* title = asText(prop:title) || title, at every page block visited.       *)
RECURSIVE TitleOf(_, _, _)
TitleOf(r, rows, title) ==
  IF rows = <<>> THEN title
  ELSE TitleOf(r, Tail(rows),
               IF Head(rows).flavour = "affine:page"
               THEN OrElse(findBlockById(r, Head(rows).id).text, title) ELSE title)

(* What read_doc returns; a title of "" stands for null.                   *)
ReadOutput(r, missing) ==
  IF ~missing THEN [exists |-> FALSE, title |-> "", blockCount |-> 0, blocks |-> <<>>]
  ELSE [exists |-> TRUE, title |-> TitleOf(r, blockRows(r), ""),
        blockCount |-> Len(blockRows(r)), blocks |-> blockRows(r)]

(* A variant of NewDocContent that writes the paragraph for empty content  *)
(* too.                                                                    *)
NewDocAlwaysParagraph(c, y, title, content) ==
  LET pageId == GenId(c, 1)
      surfaceId == GenId(c, 2)
      noteId == GenId(c, 3)
      paraId == GenId(c, 4)
      pageKids == YPush(YPush(<<>>, <<y, 5>>, surfaceId), <<y, 8>>, noteId)
  IN [blocks |-> {Block(pageId, "affine:page", NoBlock, <<y, 1>>, OrElse(title, "Untitled")),
                  Block(surfaceId, "affine:surface", pageId, <<y, 3>>, ""),
                  Block(noteId, "affine:note", pageId, <<y, 6>>, ""),
                  Block(paraId, "affine:paragraph", noteId, <<y, 9>>, content)},
      arrs |-> {[YArray(pageId, <<y, 2>>) EXCEPT !.items = pageKids],
                YArray(surfaceId, <<y, 4>>),
                [YArray(noteId, <<y, 7>>) EXCEPT !.items = YPush(<<>>, <<y, 11>>, paraId)],
                YArray(paraId, <<y, 10>>)}]

(* createDocHandler, step 1: the new document, page + surface + note and   *)
(* a paragraph when content was given.                                     *)
NewDocContent(c, y, title, content) ==
  LET pageId == GenId(c, 1)
      surfaceId == GenId(c, 2)
      noteId == GenId(c, 3)
      paraId == GenId(c, 4)
      pageKids == YPush(YPush(<<>>, <<y, 5>>, surfaceId), <<y, 8>>, noteId)
      base == [blocks |-> {Block(pageId, "affine:page", NoBlock, <<y, 1>>,
                                 OrElse(title, "Untitled")),
                           Block(surfaceId, "affine:surface", pageId, <<y, 3>>, ""),
                           Block(noteId, "affine:note", pageId, <<y, 6>>, "")},
               arrs |-> {[YArray(pageId, <<y, 2>>) EXCEPT !.items = pageKids],
                         YArray(surfaceId, <<y, 4>>)}]
  IN IF content = ""
     THEN [base EXCEPT !.arrs = @ \cup {YArray(noteId, <<y, 7>>)}]
     ELSE [blocks |-> base.blocks \cup
                        {Block(paraId, "affine:paragraph", noteId, <<y, 9>>, content)},
           arrs |-> base.arrs \cup
                      {[YArray(noteId, <<y, 7>>) EXCEPT
                          !.items = YPush(<<>>, <<y, 11>>, paraId)],
                       YArray(paraId, <<y, 10>>)}]

(* createDocHandler, step 2: meta.pages, created and set when absent, then *)
(* pages.push([entry]).  A catalog entry is represented by its id.         *)
AddCatalogEntry(r, docId, y) ==
  LET r1 == IF HasArr(r, Meta) THEN r
            ELSE [r EXCEPT !.arrs = @ \cup {YArray(Meta, <<y, 1>>)}]
      a  == ArrOf(r1, Meta)
  IN SetItems(r1, a.id, YPush(a.items, <<y, 2>>, docId))

(* deleteDocHandler: the first entry of meta.pages with the id is deleted. *)
RemoveCatalogEntry(r, docId) ==
  IF HasArr(r, Meta) /\ IndexOfEntry(ChildrenOf(r, Meta), docId) >= 0
  THEN SetItems(r, ArrOf(r, Meta).id,
                YDelete(ArrOf(r, Meta).items, IndexOfEntry(ChildrenOf(r, Meta), docId)))
  ELSE r

-----------------------------------------------------------------------------
(* The handlers.  Each handler awaits the socket, then a fixed sequence of *)
(* requests, one at a time; space:delete-doc is emitted without a callback *)
(* and is not awaited.                                                     *)

JOIN   == "space:join"
LOAD   == "space:load-doc"
PUSH   == "space:push-doc-update"
DELETE == "space:delete-doc"

(* A variant of Plan in which append_block loads once more after its push. *)
PlanLoadAfterPush(kind) ==
  CASE kind = "create_doc"   -> <<JOIN, PUSH, LOAD, PUSH>>
    [] kind = "append_block" -> <<JOIN, LOAD, PUSH, LOAD>>
    [] kind = "read_doc"     -> <<JOIN, LOAD>>
    [] kind = "delete_doc"   -> <<JOIN, LOAD, PUSH, DELETE>>

(* A variant of Plan in which create_doc loads before its first push.      *)
PlanLoadFirst(kind) ==
  CASE kind = "create_doc"   -> <<JOIN, LOAD, PUSH, PUSH>>
    [] kind = "append_block" -> <<JOIN, LOAD, PUSH>>
    [] kind = "read_doc"     -> <<JOIN, LOAD>>
    [] kind = "delete_doc"   -> <<JOIN, LOAD, PUSH, DELETE>>

Plan(kind) ==
  CASE kind = "create_doc"   -> <<JOIN, PUSH, LOAD, PUSH>>
    [] kind = "append_block" -> <<JOIN, LOAD, PUSH>>
    [] kind = "read_doc"     -> <<JOIN, LOAD>>
    [] kind = "delete_doc"   -> <<JOIN, LOAD, PUSH, DELETE>>
    [] kind = "create_workspace" -> <<JOIN, PUSH>>

(* A variant of Awaited in which space:delete-doc is awaited too.          *)
AwaitedEvery(req) == TRUE

(* A variant of Awaited in which only the load is awaited.                  *)
AwaitedLoadOnly(req) == req = LOAD

Awaited(req) == req # DELETE

(* The document a request of the handler addresses.                        *)
Target(c, kind, req, k, raw) ==
  CASE kind = "create_doc" /\ k <= 2 -> NewDocId(c)
    [] kind = "create_doc" -> WsDoc
    [] kind = "delete_doc" /\ req # DELETE -> WsDoc
    [] kind = "create_workspace" -> NewDocId(c)
    [] OTHER -> raw.docId

(* The in-memory document once a load was acknowledged: the snapshot, if   *)
(* the acknowledgement carries one, is applied to it.                      *)
Loaded(doc, data) == IF data.missing THEN ApplyUpdate(doc, data.update) ELSE doc

Edited(e, doc, sv) == [err |-> e, doc |-> doc, sv |-> sv]

Appended(res, sv) == Edited(res.err, res.r, sv)

(* What the handler does when the k-th request of its plan was             *)
(* acknowledged (k = 0: when the socket connected), before it emits the    *)
(* next one; loaded is the document with the acknowledged snapshot of a    *)
(* load.  err # "" is an error thrown there.                               *)
Local(c, y, raw, k, doc, sv, loaded) ==
  CASE raw.kind = "create_doc" /\ k = 1 ->
         Edited("", NewDocContent(c, y, raw.title, raw.content), sv)
    [] raw.kind = "create_doc" /\ k = 2 ->
         Edited("", EmptyDoc, {})
    [] raw.kind = "create_doc" /\ k = 3 ->
         Edited("", AddCatalogEntry(loaded, NewDocId(c), y), EncodeStateVector(loaded))
    [] raw.kind = "append_block" /\ k = 2 ->
         Appended(AppendToDoc(loaded, normalizeAppendBlockInput(raw).n, c, y),
                  EncodeStateVector(loaded))
    [] raw.kind = "read_doc" /\ k = 2 ->
         Edited("", loaded, sv)
    [] raw.kind = "delete_doc" /\ k = 2 ->
         Edited("", RemoveCatalogEntry(loaded, raw.docId), EncodeStateVector(loaded))
    [] OTHER -> Edited("", doc, sv)

(* A variant of LocalValidation that connects before it normalizes.        *)
WorkspaceCheckOnly(raw) == IF ~raw.wsGiven THEN "workspaceId is required" ELSE ""

(* The checks a handler makes before it opens the socket.                  *)
LocalValidation(raw) ==
  IF raw.kind = "append_block" /\ normalizeAppendBlockInput(raw).err # ""
  THEN normalizeAppendBlockInput(raw).err
  ELSE IF ~raw.wsGiven THEN "workspaceId is required"
  ELSE ""

(* A variant of OnAck that resolves on an error acknowledgement.           *)
OnAckIgnoringErrors(req, ack) == IF ack = "ok" THEN "resolve" ELSE "resolve_empty"

(* A variant of OnAck that rejects on every error acknowledgement.         *)
OnAckRejectingNotFound(req, ack) == IF ack = "ok" THEN "resolve" ELSE "reject"

(* The callbacks of ws.ts: what an acknowledgement does to the promise.    *)
OnAck(req, ack) ==
  IF ack = "ok" THEN "resolve"
  ELSE IF req = LOAD /\ ack = "DOC_NOT_FOUND" THEN "resolve_empty"
  ELSE "reject"

(* A variant of HasTimer in which the load carries no timer.               *)
NoLoadTimer(req) == req \in {"connect", JOIN, PUSH}

(* The requests that carry a timer in ws.ts.                               *)
HasTimer(req) == req \in {"connect", JOIN, LOAD, PUSH}

(* A variant of SocketAfter that disconnects on success only.              *)
KeepOpenOnFailure(exit) == IF exit = "ok" THEN "closed" ELSE "connected"

(* The socket when the handler has returned: socket.disconnect() in the    *)
(* finally block (and in the timer and connect_error callbacks of          *)
(* connectWorkspaceSocket).                                                *)
SocketAfter(exit) == "closed"

-----------------------------------------------------------------------------
(* The server's documents before the calls.                                *)

Stored(r) == [exists |-> TRUE, r |-> r]
NotStored == [exists |-> FALSE, r |-> EmptyDoc]

(* A page document as create_doc builds it (with content).                 *)
FullPage ==
  [blocks |-> {Block(PG, "affine:page", NoBlock, <<0, 1>>, "Demo"),
               Block(SF, "affine:surface", PG, <<0, 3>>, ""),
               Block(NT, "affine:note", PG, <<0, 6>>, ""),
               Block(P1, "affine:paragraph", NT, <<0, 9>>, "hello")},
   arrs |-> {[YArray(PG, <<0, 2>>) EXCEPT
                !.items = YPush(YPush(<<>>, <<0, 5>>, SF), <<0, 8>>, NT)],
             YArray(SF, <<0, 4>>),
             [YArray(NT, <<0, 7>>) EXCEPT !.items = YPush(<<>>, <<0, 11>>, P1)],
             YArray(P1, <<0, 10>>)}]

(* A document written by another client, of the shape the handlers provide *)
(* for: a page and a note, no surface, and the note has no sys:children.   *)
SparsePage ==
  [blocks |-> {Block(PG, "affine:page", NoBlock, <<0, 1>>, "Demo"),
               Block(NT, "affine:note", PG, <<0, 6>>, "")},
   arrs |-> {[YArray(PG, <<0, 2>>) EXCEPT !.items = YPush(<<>>, <<0, 8>>, NT)]}]

(* The workspace root document: with a catalog that lists PageDoc, or      *)
(* without meta.pages.                                                     *)
IndexWithPages ==
  [blocks |-> {},
   arrs |-> {[YArray(Meta, <<0, 1>>) EXCEPT !.items = YPush(<<>>, <<0, 2>>, PageDoc)]}]

IndexNoPages == EmptyDoc

(* A page document that older clients and a lost race have written: the    *)
(* note lists P1 as a bare id and P2 inside a one-element array, and P3    *)
(* names the note as its parent without being listed by it.                *)
LegacyPage ==
  [blocks |-> {Block(PG, "affine:page", NoBlock, <<0, 1>>, "Demo"),
               Block(SF, "affine:surface", PG, <<0, 3>>, ""),
               Block(NT, "affine:note", PG, <<0, 6>>, ""),
               Block(P1, "affine:paragraph", NT, <<0, 9>>, "hello"),
               Block(P2, "affine:paragraph", NT, <<0, 12>>, "world"),
               Block(P3, "affine:paragraph", NT, <<0, 15>>, "stray")},
   arrs |-> {[YArray(PG, <<0, 2>>) EXCEPT
                !.items = YPush(YPush(<<>>, <<0, 5>>, SF), <<0, 8>>, NT)],
             YArray(SF, <<0, 4>>),
             [YArray(NT, <<0, 7>>) EXCEPT
                !.items = YPush(YPush(<<>>, <<0, 11>>, P1), <<0, 14>>, Wrapped(P2))],
             YArray(P1, <<0, 10>>),
             YArray(P2, <<0, 13>>),
             YArray(P3, <<0, 16>>)}]

(* A page document that holds its page block only.                         *)
BarePage ==
  [blocks |-> {Block(PG, "affine:page", NoBlock, <<0, 1>>, "Demo")}, arrs |-> {}]

(* What is left of a page when a delete_doc overtakes an append that made   *)
(* the note: the server holds the note and its paragraph, and no page.     *)
Orphaned ==
  [blocks |-> {Block(NT, "affine:note", PG, <<0, 6>>, ""),
               Block(P1, "affine:paragraph", NT, <<0, 9>>, "hello")},
   arrs |-> {[YArray(NT, <<0, 7>>) EXCEPT !.items = YPush(<<>>, <<0, 11>>, P1)],
             YArray(P1, <<0, 10>>)}]

(* A workspace root document whose catalog lists PageDoc twice.            *)
IndexTwice ==
  [blocks |-> {},
   arrs |-> {[YArray(Meta, <<0, 1>>) EXCEPT
                !.items = YPush(YPush(YPush(<<>>, <<0, 2>>, PageDoc), <<0, 3>>, NewDocId("B")),
                                <<0, 4>>, PageDoc)]}]

Server(index, page) ==
  [d \in DocIds |-> IF d = WsDoc THEN index ELSE IF d = PageDoc THEN page ELSE NotStored]

-----------------------------------------------------------------------------
(* The protocol.                                                           *)

NoData == [missing |-> FALSE, update |-> EmptyUpdate]

Request(req, doc, update) == [req |-> req, doc |-> doc, update |-> update]

(* A variant of Outcome without the inner catch of create_workspace: a    *)
(* failed synchronisation is reported as a failed creation.                *)
OutcomeNoPartial(kind, exit) ==
  IF kind # "create_workspace" THEN exit
  ELSE IF exit = "ok" THEN "success" ELSE "failed"

(* The result a handler reports for an exit of its socket part: for        *)
(* create_workspace status "success", or "partial" from the catch around   *)
(* connect, join and push.                                                 *)
Outcome(kind, exit) ==
  IF kind # "create_workspace" THEN exit
  ELSE IF exit = "ok" THEN "success" ELSE "partial"

(* A variant of Return in which the promise that was settled stays        *)
(* pending: the handler records its outcome and goes on waiting.           *)
ReturnStillWaiting(c, res, at, e, tr, doc, sv) ==
  /\ result' = [result EXCEPT ![c] = res]
  /\ failAt' = [failAt EXCEPT ![c] = at]
  /\ err' = [err EXCEPT ![c] = e]
  /\ trace' = [trace EXCEPT ![c] = tr]
  /\ ldoc' = [ldoc EXCEPT ![c] = doc]
  /\ prevSV' = [prevSV EXCEPT ![c] = sv]
  /\ UNCHANGED <<pc, sock, acks>>

(* The handler of client c returns: its finally block runs.                *)
Return(c, res, at, e, tr, doc, sv) ==
  /\ pc' = [pc EXCEPT ![c] = "returned"]
  /\ result' = [result EXCEPT ![c] = Outcome(inp[c].kind, res)]
  /\ failAt' = [failAt EXCEPT ![c] = at]
  /\ err' = [err EXCEPT ![c] = e]
  /\ sock' = [sock EXCEPT ![c] = SocketAfter(res)]
  /\ trace' = [trace EXCEPT ![c] =
                 IF SocketAfter(res) = "closed" THEN Append(tr, <<"disconnect", "">>) ELSE tr]
  /\ acks' = [acks EXCEPT ![c] = <<>>]
  /\ ldoc' = [ldoc EXCEPT ![c] = doc]
  /\ prevSV' = [prevSV EXCEPT ![c] = sv]

(* The requests the handler emits after the k-th one of its plan: those    *)
(* it does not await, and the next one it awaits, if any.                  *)
RECURSIVE EmitFrom(_, _)
EmitFrom(plan, k) ==
  IF k >= Len(plan) THEN <<>>
  ELSE IF Awaited(plan[k + 1]) THEN <<plan[k + 1]>>
  ELSE <<plan[k + 1]>> \o EmitFrom(plan, k + 1)

Events(ev, reqs) == [i \in 1..Len(reqs) |-> <<ev, reqs[i]>>]

(* The requests emitted after the k-th one, as they go on the wire.        *)
Messages(c, raw, k, reqs, loc) ==
  [i \in 1..Len(reqs) |->
     Request(reqs[i], Target(c, raw.kind, reqs[i], k + i, raw),
             IF reqs[i] = PUSH THEN EncodeStateAsUpdate(loc.doc, loc.sv) ELSE EmptyUpdate)]

(* The handler of client c runs on after the k-th request of its plan was  *)
(* acknowledged (k = 0: after connect), until it awaits again or returns.  *)
Continue(c, k, has, tr, reqs, loc) ==
  IF loc.err # ""
  THEN /\ Return(c, "fail", "resolve", loc.err, tr, loc.doc, loc.sv)
       /\ UNCHANGED <<step, wire, out>>
  ELSE /\ wire' = [wire EXCEPT ![c] = @ \o Messages(c, inp[c], k, reqs, loc)]
       /\ out' = [out EXCEPT ![c] = [exists |-> has]]
       /\ step' = [step EXCEPT ![c] = k + Len(reqs)]
       /\ IF reqs # <<>> /\ Awaited(reqs[Len(reqs)])
          THEN /\ pc' = [pc EXCEPT ![c] = reqs[Len(reqs)]]
               /\ trace' = [trace EXCEPT ![c] = tr \o Events("emit", reqs)]
               /\ sock' = [sock EXCEPT ![c] = "connected"]
               /\ acks' = [acks EXCEPT ![c] = IF k = 0 THEN @ ELSE Tail(@)]
               /\ ldoc' = [ldoc EXCEPT ![c] = loc.doc]
               /\ prevSV' = [prevSV EXCEPT ![c] = loc.sv]
               /\ UNCHANGED <<result, failAt, err>>
          ELSE Return(c, "ok", "", "", tr \o Events("emit", reqs), loc.doc, loc.sv)

Resume(c, k, data, tr) ==
  Continue(c, k, data.missing, tr, EmitFrom(Plan(inp[c].kind), k),
           Local(c, yid[c], inp[c], k, ldoc[c], prevSV[c], Loaded(ldoc[c], data)))

(* A tool call arrives: the handler validates its arguments and opens the  *)
(* socket (connectWorkspaceSocket), y being the clientID its Y.Doc draws.  *)
Start(c, raw, y) ==
  /\ pc[c] = "idle"
  /\ \A d \in Clients : pc[d] # "idle" => yid[d] # y
  /\ inp' = [inp EXCEPT ![c] = raw]
  /\ yid' = [yid EXCEPT ![c] = y]
  /\ IF LocalValidation(raw) # ""
     THEN /\ pc' = [pc EXCEPT ![c] = "returned"]
          /\ result' = [result EXCEPT ![c] = "fail"]
          /\ failAt' = [failAt EXCEPT ![c] = "validate"]
          /\ err' = [err EXCEPT ![c] = LocalValidation(raw)]
          /\ UNCHANGED <<sock, trace>>
     ELSE /\ pc' = [pc EXCEPT ![c] = "connect"]
          /\ sock' = [sock EXCEPT ![c] = "connecting"]
          /\ trace' = [trace EXCEPT ![c] = <<<<"open", "">>>>]
          /\ UNCHANGED <<result, failAt, err>>
  /\ UNCHANGED <<step, wire, acks, ldoc, prevSV, out, sdocs, applied>>

(* The socket's connect event: onConnect resolves and the handler emits    *)
(* its first request.                                                      *)
ConnectEvent(c) ==
  /\ pc[c] = "connect"
  /\ Resume(c, 0, NoData, Append(trace[c], <<"connect", "">>))
  /\ UNCHANGED <<inp, yid, sdocs, applied>>

ConnectFailed(c, ev) ==
  /\ pc[c] = "connect"
  /\ pc' = [pc EXCEPT ![c] = "returned"]
  /\ result' = [result EXCEPT ![c] = Outcome(inp[c].kind, "fail")]
  /\ failAt' = [failAt EXCEPT ![c] = "connect"]
  /\ err' = [err EXCEPT ![c] = ev]
  /\ sock' = [sock EXCEPT ![c] = "closed"]
  /\ trace' = [trace EXCEPT ![c] = @ \o <<<<ev, "">>, <<"disconnect", "">>>>]
  /\ UNCHANGED <<inp, step, wire, acks, ldoc, prevSV, yid, out, sdocs, applied>>

(* The socket's connect_error event: onError disconnects and rejects.      *)
ConnectError(c) == ConnectFailed(c, "connect_error")

(* The connect timer fires: it disconnects and rejects.                    *)
ConnectTimeout(c) == HasTimer("connect") /\ ConnectFailed(c, "connect_timeout")

(* The server handles the oldest request of c's socket and acknowledges    *)
(* it; the acknowledgement is lost when the socket is no longer connected. *)
Reply(c, ack, data) ==
  acks' = [acks EXCEPT ![c] =
             IF sock[c] = "connected" /\ Awaited(Head(wire[c]).req)
             THEN Append(@, [req |-> Head(wire[c]).req, ack |-> ack, data |-> data])
             ELSE @]

ServerHandle(c) ==
  /\ wire[c] # <<>>
  /\ wire' = [wire EXCEPT ![c] = Tail(@)]
  /\ LET m == Head(wire[c]) IN
     CASE m.req = JOIN ->
            /\ Reply(c, "ok", NoData)
            /\ UNCHANGED <<sdocs, applied>>
       [] m.req = LOAD ->
            /\ IF sdocs[m.doc].exists
               THEN Reply(c, "ok", [missing |-> TRUE,
                                    update |-> EncodeStateAsUpdate(sdocs[m.doc].r, {})])
               ELSE Reply(c, "DOC_NOT_FOUND", NoData)
            /\ UNCHANGED <<sdocs, applied>>
       [] m.req = PUSH ->
            /\ Reply(c, "ok", NoData)
            /\ sdocs' = [sdocs EXCEPT ![m.doc] = Stored(ApplyUpdate(@.r, m.update))]
            /\ applied' = [applied EXCEPT ![c] = Append(@, m.doc)]
       [] m.req = DELETE ->
            /\ Reply(c, "ok", NoData)
            /\ sdocs' = [sdocs EXCEPT ![m.doc] = NotStored]
            /\ UNCHANGED applied
  /\ UNCHANGED <<inp, pc, step, result, failAt, err, sock, trace, ldoc, prevSV, yid, out>>

(* The server refuses the oldest request of c's socket: it acknowledges    *)
(* with an error and changes nothing.                                      *)
ServerRefuse(c) ==
  /\ wire[c] # <<>>
  /\ Awaited(Head(wire[c]).req)
  /\ wire' = [wire EXCEPT ![c] = Tail(@)]
  /\ Reply(c, "error", NoData)
  /\ UNCHANGED <<inp, pc, step, result, failAt, err, sock, trace, ldoc, prevSV, yid, out,
                 sdocs, applied>>

(* How the history records an acknowledgement: a plain one, the server's   *)
(* "not found", or an error.                                               *)
AckEvent(ack) ==
  CASE ack = "ok" -> "ack"
    [] ack = "DOC_NOT_FOUND" -> "missing"
    [] OTHER -> "nack"

(* An acknowledgement reaches the callback of the awaited request.         *)
AckDelivered(c) ==
  /\ sock[c] = "connected"
  /\ acks[c] # <<>>
  /\ pc[c] = Head(acks[c]).req
  /\ LET a  == Head(acks[c])
         on == OnAck(a.req, a.ack)
         tr == Append(trace[c], <<AckEvent(a.ack), a.req>>)
     IN IF on = "reject"
        THEN /\ Return(c, "fail", a.req, a.ack, tr, ldoc[c], prevSV[c])
             /\ UNCHANGED <<step, wire, out>>
        ELSE /\ Resume(c, step[c], IF on = "resolve" THEN a.data ELSE NoData, tr)
  /\ UNCHANGED <<inp, yid, sdocs, applied>>

(* The timer of the awaited request fires first: the promise rejects.      *)
AckTimeout(c) ==
  /\ pc[c] \in {JOIN, LOAD, PUSH}
  /\ HasTimer(pc[c])
  /\ Return(c, "fail", pc[c], "timeout", Append(trace[c], <<"timeout", pc[c]>>),
            ldoc[c], prevSV[c])
  /\ UNCHANGED <<inp, step, wire, out, yid, sdocs, applied>>

(* createInitialWorkspaceData: the title of the first document.           *)
WelcomeTo(name) ==
  CASE name = "Demo" -> "Welcome to Demo"
    [] name = " " -> "Welcome to  "
    [] OTHER -> "Welcome to "

(* create_workspace arrives: the handler builds the workspace root and the *)
(* first document and posts the createWorkspace mutation.                  *)
CreateWorkspace(c, raw, y) ==
  /\ pc[c] = "idle"
  /\ \A d \in Clients : pc[d] # "idle" => yid[d] # y
  /\ inp' = [inp EXCEPT ![c] = raw]
  /\ yid' = [yid EXCEPT ![c] = y]
  /\ pc' = [pc EXCEPT ![c] = "fetch"]
  /\ trace' = [trace EXCEPT ![c] = <<<<"fetch", "">>>>]
  /\ ldoc' = [ldoc EXCEPT ![c] =
                NewDocContent(c, y, WelcomeTo(raw.name),
                              "This workspace was created by AFFiNE MCP Server")]
  /\ prevSV' = [prevSV EXCEPT ![c] = {}]
  /\ UNCHANGED <<step, result, failAt, err, sock, wire, acks, out, sdocs, applied>>

(* The server has created the workspace from the init data and the         *)
(* response carries it: the handler opens the socket.                      *)
FetchOk(c) ==
  /\ pc[c] = "fetch"
  /\ sdocs' = [sdocs EXCEPT ![WsDoc] = Stored(AddCatalogEntry(EmptyDoc, NewDocId(c), yid[c]))]
  /\ pc' = [pc EXCEPT ![c] = "connect"]
  /\ sock' = [sock EXCEPT ![c] = "connecting"]
  /\ trace' = [trace EXCEPT ![c] = @ \o <<<<"response", "">>, <<"open", "">>>>]
  /\ UNCHANGED <<inp, step, result, failAt, err, wire, acks, ldoc, prevSV, yid, out, applied>>

(* The request fails: fetch or response.json() throws, or the response     *)
(* carries errors; the outer catch reports it.  Whether the server has     *)
(* created the workspace all the same is open.                             *)
FetchFailed(c, made) ==
  /\ pc[c] = "fetch"
  /\ sdocs' = IF made
              THEN [sdocs EXCEPT ![WsDoc] =
                      Stored(AddCatalogEntry(EmptyDoc, NewDocId(c), yid[c]))]
              ELSE sdocs
  /\ pc' = [pc EXCEPT ![c] = "returned"]
  /\ result' = [result EXCEPT ![c] = "failed"]
  /\ failAt' = [failAt EXCEPT ![c] = "fetch"]
  /\ err' = [err EXCEPT ![c] = "request failed"]
  /\ trace' = [trace EXCEPT ![c] = Append(@, <<"fetch_error", "">>)]
  /\ UNCHANGED <<inp, step, sock, wire, acks, ldoc, prevSV, yid, out, applied>>

-----------------------------------------------------------------------------
(* The calls and the server states the model explores.                     *)

Call(kind) == [RawDefaults EXCEPT !.kind = kind]

AppendCall(type, strict, placement) ==
  [RawDefaults EXCEPT !.type = type, !.strict = strict, !.placement = placement]

Calls ==
  { [Call("create_doc") EXCEPT !.title = "Demo", !.content = "hello"],
    Call("create_doc"),
    Call("read_doc"),
    [Call("read_doc") EXCEPT !.wsGiven = FALSE],
    Call("delete_doc"),
    AppendCall("paragraph", "absent", NoPlacement),
    AppendCall("frame", "absent", NoPlacement),
    AppendCall("unknown", "absent", NoPlacement),
    [AppendCall("paragraph", "absent", NoPlacement) EXCEPT !.given = {"checked"}],
    AppendCall("bookmark", "false", NoPlacement),
    AppendCall("paragraph", "absent", Placement(NoBlock, P1, NT, -1)),
    AppendCall("paragraph", "absent", Placement(PG, NoBlock, NoBlock, -1)),
    AppendCall("paragraph", "false", Placement(PG, NoBlock, NoBlock, -1)),
    AppendCall("paragraph", "absent", Placement(NoBlock, Ghost, NoBlock, -1)) }

MaxYid == 2
YIds == 1..MaxYid

Servers ==
  { Server(Stored(IndexWithPages), Stored(FullPage)),
    Server(Stored(IndexNoPages), Stored(SparsePage)),
    Server(NotStored, NotStored) }

Fresh ==
  /\ inp = [c \in Clients |-> RawDefaults]
  /\ pc = [c \in Clients |-> "idle"]
  /\ step = [c \in Clients |-> 0]
  /\ result = [c \in Clients |-> "none"]
  /\ failAt = [c \in Clients |-> ""]
  /\ err = [c \in Clients |-> ""]
  /\ sock = [c \in Clients |-> "none"]
  /\ trace = [c \in Clients |-> <<>>]
  /\ wire = [c \in Clients |-> <<>>]
  /\ acks = [c \in Clients |-> <<>>]
  /\ ldoc = [c \in Clients |-> EmptyDoc]
  /\ prevSV = [c \in Clients |-> {}]
  /\ yid = [c \in Clients |-> 0]
  /\ out = [c \in Clients |-> [exists |-> FALSE]]
  /\ applied = [c \in Clients |-> <<>>]

Init == Fresh /\ sdocs \in Servers

Solo == {"A"}

Next ==
  \E c \in Solo :
    \/ \E raw \in Calls : \E y \in YIds : Start(c, raw, y)
    \/ ConnectEvent(c)
    \/ ConnectError(c)
    \/ ConnectTimeout(c)
    \/ ServerHandle(c)
    \/ ServerRefuse(c)
    \/ AckDelivered(c)
    \/ AckTimeout(c)

Spec == Init /\ [][Next]_vars

(* Timers fire: a connect or acknowledgement timer that stays armed        *)
(* eventually runs its callback (setTimeout in ws.ts).                     *)
SpecFair == Spec /\ \A c \in Solo : WF_vars(ConnectTimeout(c)) /\ WF_vars(AckTimeout(c))

(* Two calls race on the same workspace; the server answers every request. *)
RaceCalls ==
  { [Call("create_doc") EXCEPT !.title = "Demo"],
    Call("delete_doc"),
    AppendCall("paragraph", "absent", NoPlacement),
    AppendCall("frame", "absent", NoPlacement) }

NextRace ==
  \E c \in Clients :
    \/ \E raw \in RaceCalls : \E y \in YIds : Start(c, raw, y)
    \/ ConnectEvent(c)
    \/ ServerHandle(c)
    \/ AckDelivered(c)

SpecRace == Init /\ [][NextRace]_vars

(* One call at a time, with every failure, over the placements of         *)
(* append_block and over documents of every shape the handlers provide     *)
(* for.                                                                    *)
Kinds == {"paragraph", "list", "note", "frame", "edgeless_text"}

PlacementsRefused ==
  { Placement(NoBlock, P1, P2, -1), Placement(NT, P1, P2, -1),
    Placement(NoBlock, P1, NoBlock, 0), Placement(NoBlock, NoBlock, P1, 1),
    Placement(NT, P1, NoBlock, 0), Placement(NT, NoBlock, P1, 1) }

PlacementsByReference ==
  { Placement(NoBlock, P1, NoBlock, -1), Placement(NoBlock, NoBlock, P1, -1),
    Placement(NoBlock, P2, NoBlock, -1), Placement(NoBlock, NoBlock, P2, -1),
    Placement(NoBlock, P3, NoBlock, -1), Placement(NoBlock, NoBlock, Ghost, -1),
    Placement(NoBlock, PG, NoBlock, -1), Placement(NoBlock, NoBlock, NT, -1),
    Placement(NoBlock, Blank, P1, -1) }

PlacementsByParent ==
  { Placement(NT, NoBlock, NoBlock, i) : i \in -1..3 }

PlacementsMixed ==
  { Placement(SF, P1, NoBlock, -1), Placement(PG, NoBlock, P1, -1),
    Placement(NT, P1, NoBlock, -1) }

PlacementsByDefault ==
  { NoPlacement, Placement(NoBlock, NoBlock, NoBlock, 0), Placement(Blank, Blank, Blank, -1) }

EditCalls ==
  { Call("delete_doc"), [Call("delete_doc") EXCEPT !.docId = NewDocId("B")] }
    \cup { AppendCall(t, st, pl) :
             t \in APPEND_BLOCK_CANONICAL_TYPE_VALUES, st \in {"absent", "false"},
             pl \in PlacementsRefused }
    \cup { AppendCall("paragraph", "absent", pl) :
             pl \in PlacementsByReference \cup PlacementsByParent \cup PlacementsMixed }
    \cup { AppendCall("paragraph", "false", Placement(NT, NoBlock, NoBlock, i)) : i \in 2..3 }
    \cup { AppendCall(t, st, pl) :
             t \in Kinds, st \in {"absent", "false"}, pl \in PlacementsByDefault }

EditServers ==
  { Server(Stored(IndexWithPages), Stored(FullPage)),
    Server(Stored(IndexTwice), Stored(LegacyPage)),
    Server(Stored(IndexNoPages), Stored(SparsePage)),
    Server(Stored(IndexNoPages), Stored(BarePage)),
    Server(Stored(IndexNoPages), Stored(Orphaned)),
    Server(NotStored, NotStored) }

InitEdit == Fresh /\ sdocs \in EditServers

NextEdit ==
  \E c \in Solo :
    \/ \E raw \in EditCalls : \E y \in YIds : Start(c, raw, y)
    \/ ConnectEvent(c)
    \/ ConnectError(c)
    \/ ConnectTimeout(c)
    \/ ServerHandle(c)
    \/ ServerRefuse(c)
    \/ AckDelivered(c)
    \/ AckTimeout(c)

SpecEdit == InitEdit /\ [][NextEdit]_vars

(* create_doc by one client and, once it has returned, read_doc by the     *)
(* other: of the new document or of the page that was there before.        *)
CreateCalls ==
  { [Call("create_doc") EXCEPT !.title = t, !.content = x] :
      t \in {"", " ", "Demo"}, x \in {"", " ", "hello"} }

ReadCalls ==
  { Call("read_doc"), [Call("read_doc") EXCEPT !.docId = NewDocId("A")] }

NextRead ==
  \/ \E raw \in CreateCalls : \E y \in YIds : Start("A", raw, y)
  \/ pc["A"] = "returned" /\ \E raw \in ReadCalls : \E y \in YIds : Start("B", raw, y)
  \/ \E c \in Clients :
       \/ ConnectEvent(c)
       \/ ConnectError(c)
       \/ ConnectTimeout(c)
       \/ ServerHandle(c)
       \/ ServerRefuse(c)
       \/ AckDelivered(c)
       \/ AckTimeout(c)

SpecRead == Init /\ [][NextRead]_vars

(* append_block requests over the type names and the optional fields: a    *)
(* request that carries what its kind requires, alone or with one more     *)
(* field; one that lacks a required field or carries it empty, blank or,   *)
(* for a url, malformed; and lists over style and checked.                 *)
Filled ==
  [RawDefaults EXCEPT !.url = "https://example.com", !.pageId = "x",
     !.iframeUrl = "https://example.com", !.html = "x", !.design = "x", !.reference = "x",
     !.refFlavour = "x", !.background = "x", !.sourceId = "x", !.name = "x",
     !.mimeType = "x", !.latex = "x", !.language = "x", !.caption = "x", !.level = 4]

Required(type) ==
  CASE type \in {"bookmark", "embed_youtube", "embed_github", "embed_figma", "embed_loom",
                 "embed_iframe"} -> {"url"}
    [] type \in {"image", "attachment"} -> {"sourceId"}
    [] type \in {"embed_linked_doc", "embed_synced_doc"} -> {"pageId"}
    [] type = "embed_html" -> {"html"}
    [] type = "surface_ref" -> {"reference", "refFlavour"}
    [] type = "latex" -> {"latex"}
    [] OTHER -> {}

KindCall(name, strict, given) ==
  [Filled EXCEPT !.type = name, !.strict = strict, !.given = given]

KindCalls ==
  LET names == APPEND_BLOCK_CANONICAL_TYPE_VALUES \cup DOMAIN APPEND_BLOCK_LEGACY_ALIAS_MAP
                 \cup {" paragraph ", "PARAGRAPH", "Heading2", "TODO", "unknown", " "}
      fields == {"level", "style", "checked", "language", "url", "rows", "columns",
                 "bookmarkStyle", "caption", "sourceId", "name", "mimeType", "embed", "size",
                 "latex", "pageId", "html", "design", "iframeUrl", "reference", "refFlavour",
                 "width", "height", "background"}
      req(t) == Required(normalizeBlockTypeInput(t).type)
      all(t) == req(t) \cup (IF t = "attachment" THEN {"name", "mimeType"} ELSE {})
                       \cup (IF t = "embed_html" THEN {"design"} ELSE {})
  IN { KindCall(t, st, req(t) \cup X) :
         t \in names, st \in {"absent", "false"}, X \in {{}} \cup {{f} : f \in fields} }
     \cup UNION { { [KindCall(t, st, all(t) \ (IF x = 0 THEN {} ELSE IF x = 1 THEN {f}
                                               ELSE {"html", "design"}))
                        EXCEPT ![f] = v] :
                     f \in all(t), v \in {"x", "", " ", "not a url"}, x \in 0..2 } :
                 t \in {"bookmark", "embed_iframe", "image", "attachment", "embed_synced_doc",
                        "embed_html", "surface_ref", "latex"},
                 st \in {"absent", "false"} }
     \cup { [KindCall(t, st, G) EXCEPT !.style = sy, !.checked = ck] :
              t \in {"list", "todo", "numbered_list"}, st \in {"absent", "true", "false"},
              G \in SUBSET {"style", "checked"}, sy \in APPEND_BLOCK_LIST_STYLE_VALUES,
              ck \in BOOLEAN }

NextKinds ==
  \E c \in Solo :
    \/ \E raw \in KindCalls : \E y \in YIds : Start(c, raw, y)
    \/ ConnectEvent(c)
    \/ ServerHandle(c)
    \/ AckDelivered(c)

InitKinds == Fresh /\ sdocs = Server(Stored(IndexWithPages), Stored(FullPage))

SpecKinds == InitKinds /\ [][NextKinds]_vars

(* Two successful operations in a row: create_doc or append_block, then   *)
(* append_block on the page that was there before or on the new document,  *)
(* by default, under a parent or next to a block, the blocks of the first  *)
(* operation included.                                                     *)
TreeCalls ==
  { [Call("create_doc") EXCEPT !.title = "Demo", !.content = x] : x \in {"", "hello"} }
    \cup { AppendCall(t, "absent", NoPlacement) : t \in {"paragraph", "note", "frame"} }
    \cup { AppendCall("paragraph", "absent", Placement(NT, NoBlock, NoBlock, 0)) }

TreeAppends ==
  { [AppendCall(t, st, pl) EXCEPT !.docId = d] :
      t \in {"paragraph", "note", "frame"}, st \in {"absent", "false"},
      d \in {PageDoc, NewDocId("A")},
      pl \in { NoPlacement }
               \cup { Placement(b, NoBlock, NoBlock, i) :
                        b \in {NT, PG, P1, GenId("A", 1), GenId("A", 2), GenId("A", 3)},
                        i \in {-1, 0} }
               \cup { Placement(NoBlock, b, NoBlock, -1) : b \in {P1, GenId("A", 2), GenId("A", 4)} }
               \cup { Placement(NoBlock, NoBlock, b, -1) : b \in {P1, NT, GenId("A", 3)} } }

NextTree ==
  \/ \E raw \in TreeCalls : \E y \in YIds : Start("A", raw, y)
  \/ pc["A"] = "returned" /\ \E raw \in TreeAppends : \E y \in YIds : Start("B", raw, y)
  \/ \E c \in Clients :
       \/ ConnectEvent(c)
       \/ ServerHandle(c)
       \/ AckDelivered(c)

SpecTree == InitKinds /\ [][NextTree]_vars

(* create_workspace on a server that holds no workspace yet, with every   *)
(* failure of the request and of the socket.                               *)
NextWorkspace ==
  \E c \in Solo :
    \/ \E n \in {"", " ", "Demo"} : \E y \in YIds :
         CreateWorkspace(c, [Call("create_workspace") EXCEPT !.name = n], y)
    \/ FetchOk(c)
    \/ \E made \in BOOLEAN : FetchFailed(c, made)
    \/ ConnectEvent(c)
    \/ ConnectError(c)
    \/ ConnectTimeout(c)
    \/ ServerHandle(c)
    \/ ServerRefuse(c)
    \/ AckDelivered(c)
    \/ AckTimeout(c)

InitWorkspace == Fresh /\ sdocs = Server(NotStored, NotStored)

SpecWorkspace == InitWorkspace /\ [][NextWorkspace]_vars

(* Two strict append_block calls on the same page, one after the other or  *)
(* overlapping; a call may name the block the other one appends.           *)
StrictCalls ==
  { AppendCall("paragraph", "absent", Placement(PG, NoBlock, NoBlock, -1)),
    AppendCall("paragraph", "true", Placement(SF, NoBlock, NoBlock, -1)),
    AppendCall("note", "absent", Placement(NT, NoBlock, NoBlock, -1)),
    AppendCall("frame", "absent", Placement(NoBlock, P1, NoBlock, -1)),
    AppendCall("paragraph", "absent", Placement(NoBlock, NoBlock, NT, -1)),
    AppendCall("note", "absent", NoPlacement),
    AppendCall("frame", "true", NoPlacement),
    AppendCall("paragraph", "absent", Placement(GenId("A", 2), NoBlock, NoBlock, -1)),
    AppendCall("note", "absent", Placement(GenId("A", 2), NoBlock, NoBlock, -1)) }

NextStrict ==
  \E c \in Clients :
    \/ \E raw \in StrictCalls : \E y \in YIds : Start(c, raw, y)
    \/ ConnectEvent(c)
    \/ ServerHandle(c)
    \/ AckDelivered(c)

SpecStrict == Init /\ [][NextStrict]_vars

-----------------------------------------------------------------------------
(* Properties.                                                             *)

Count(tr, e) == Cardinality({i \in DOMAIN tr : tr[i] = e})

Emitted(c, req) == Count(trace[c], <<"emit", req>>) > 0

Emits(tr) == SelectSeq(tr, LAMBDA e : e[1] = "emit")

Before(tr, i, e) == \E j \in 1..(i - 1) : tr[j] = e

WritingKinds == {"create_doc", "append_block", "delete_doc"}

(* C1, as the specification states it: when create_doc, append_block or    *)
(* delete_doc ends in failure, no update pushed by the call has been       *)
(* applied to the server's documents.                                      *)
C1_NoPartialCommit ==
  \A c \in Clients :
    inp[c].kind \in WritingKinds /\ result[c] = "fail" => applied[c] = <<>>

(* C1, amended: nothing of a call is applied before it has emitted a push; *)
(* in append_block and delete_doc the single push is the last request the  *)
(* handler awaits, so once it is acknowledged the call has succeeded; a    *)
(* failed call has an update applied only when its push timed out while    *)
(* the server still handled it, or when it is a create_doc that failed at  *)
(* the index load or index push, after its content push.                   *)
C1_NoCommitBeforePush ==
  \A c \in Clients :
       /\ ~Emitted(c, PUSH) => applied[c] = <<>>
       /\ inp[c].kind \in {"append_block", "delete_doc"} =>
            /\ Count(trace[c], <<"emit", PUSH>>) <= 1
            /\ Count(trace[c], <<"ack", PUSH>>) = 1 => pc[c] = "returned" /\ result[c] = "ok"
       /\ inp[c].kind \in WritingKinds /\ result[c] = "fail" /\ applied[c] # <<>> =>
            \/ failAt[c] = PUSH /\ err[c] = "timeout"
            \/ /\ inp[c].kind = "create_doc"
               /\ failAt[c] \in {LOAD, PUSH}
               /\ Head(applied[c]) = NewDocId(c)

(* An append_block whose load timed out: it failed and nothing is applied. *)
C1_Witness ==
  \E c \in Clients :
    /\ inp[c].kind = "append_block" /\ result[c] = "fail"
    /\ failAt[c] = LOAD /\ err[c] = "timeout" /\ applied[c] = <<>>

(* C2: a call that passes its local checks opens one socket, emits exactly *)
(* one space:join on it once it is connected, and has disconnected it when *)
(* it returns, whatever the exit; a failed connect leaves it disconnected. *)
C2_OwnSocketOneJoinClosed ==
  \A c \in Clients :
    LET tr == trace[c] IN
    /\ sock[c] = "none" <=> (pc[c] = "idle" \/ failAt[c] = "validate")
    /\ Count(tr, <<"open", "">>) = IF sock[c] = "none" THEN 0 ELSE 1
    /\ Count(tr, <<"connect", "">>) <= 1
    /\ Count(tr, <<"emit", JOIN>>) = Count(tr, <<"connect", "">>)
    /\ Count(tr, <<"connect", "">>) = 1 <=>
         (pc[c] \in {JOIN, LOAD, PUSH}
            \/ (pc[c] = "returned" /\ failAt[c] \notin {"validate", "connect"}))
    /\ pc[c] = "returned" /\ sock[c] # "none" =>
         /\ sock[c] = "closed"
         /\ tr[Len(tr)] = <<"disconnect", "">>
         /\ Count(tr, <<"disconnect", "">>) = 1
    /\ pc[c] # "returned" => Count(tr, <<"disconnect", "">>) = 0

(* A call that failed in the placement resolver, after its load.           *)
C2_Witness ==
  \E c \in Clients :
    /\ pc[c] = "returned" /\ failAt[c] = "resolve" /\ sock[c] = "closed"
    /\ Count(trace[c], <<"emit", JOIN>>) = 1

(* C3: the history of a socket is open, connect, join, then requests one   *)
(* at a time, then disconnect: no join before the connect event, no other  *)
(* request before the join was acknowledged, a request only right after    *)
(* the acknowledgement of the previous one, at most one request waiting    *)
(* for its acknowledgement, nothing after disconnect.                      *)
C3_TraceOrder ==
  \A c \in Clients :
    LET tr == trace[c] IN
    /\ \A i \in DOMAIN tr :
         /\ tr[i] = <<"connect", "">> => i = 2 /\ tr[1] = <<"open", "">>
         /\ tr[i] = <<"emit", JOIN>> => i = 3 /\ tr[2] = <<"connect", "">>
         /\ tr[i][1] = "emit" /\ tr[i][2] # JOIN =>
              /\ Before(tr, i, <<"ack", JOIN>>)
              /\ tr[i - 1][1] \in {"ack", "missing"}
         /\ tr[i][1] \in {"ack", "missing", "nack", "timeout"} =>
              i > 1 /\ tr[i - 1] = <<"emit", tr[i][2]>>
         /\ tr[i][1] = "disconnect" => i = Len(tr)
    /\ Len(SelectSeq(wire[c], LAMBDA m : Awaited(m.req))) + Len(acks[c]) <= 1
    /\ sock[c] = "closed" => tr[Len(tr)] = <<"disconnect", "">>

(* A create_doc that went through its whole cycle: push, load, push.       *)
C3_Witness ==
  \E c \in Clients :
    /\ inp[c].kind = "create_doc" /\ result[c] = "ok"
    /\ Count(trace[c], <<"emit", PUSH>>) = 2 /\ sock[c] = "closed"

ContainmentErrors ==
  {"not under page", "not under surface", "note must be under page", "must be under surface"}

(* Requests that normalization must refuse: an unsupported type, a field   *)
(* that does not belong to the type (strict), a missing required field, a  *)
(* placement with both after and before.                                   *)
Malformed(raw) ==
  \/ ToLowerCase(Trim(raw.type)) \notin
       APPEND_BLOCK_CANONICAL_TYPE_VALUES \cup DOMAIN APPEND_BLOCK_LEGACY_ALIAS_MAP
  \/ raw.strict # "false" /\ Has(raw, "checked") /\ ToLowerCase(Trim(raw.type)) = "paragraph"
  \/ ToLowerCase(Trim(raw.type)) = "bookmark" /\ ~Has(raw, "url")
  \/ raw.placement.given /\ raw.placement.afterBlockId # NoBlock
       /\ raw.placement.beforeBlockId # NoBlock

(* C4: when the normalization of an append_block request fails, the call   *)
(* fails with that error, no socket is opened and no request is sent.      *)
C4_NormalizationFirst ==
  \A c \in Clients :
    pc[c] # "idle" /\ inp[c].kind = "append_block" =>
      /\ Malformed(inp[c]) => normalizeAppendBlockInput(inp[c]).err # ""
      /\ normalizeAppendBlockInput(inp[c]).err # "" =>
           /\ pc[c] = "returned" /\ result[c] = "fail" /\ failAt[c] = "validate"
           /\ err[c] = normalizeAppendBlockInput(inp[c]).err
           /\ sock[c] = "none" /\ trace[c] = <<>> /\ wire[c] = <<>> /\ applied[c] = <<>>

(* An append_block refused for naming both an after and a before block.    *)
C4_Witness ==
  \E c \in Clients :
    /\ failAt[c] = "validate" /\ err[c] = "after and before are mutually exclusive"
    /\ sock[c] = "none" /\ trace[c] = <<>>

(* C5, as the specification states it: a containment violation makes the   *)
(* call fail before a connection is opened and before any request is sent. *)
C5_ContainmentBeforeIO ==
  \A c \in Clients :
    err[c] \in ContainmentErrors => sock[c] = "none" /\ trace[c] = <<>>

(* A strict request to put a block that is no note directly under the page.*)
ViolatesContainment(raw) ==
  /\ raw.kind = "append_block" /\ raw.strict # "false"
  /\ normalizeAppendBlockInput(raw).err = ""
  /\ raw.placement.parentId = PG
  /\ normalizeBlockTypeInput(raw.type).type # "note"

(* C5, amended: normalization errors are raised before any network I/O; a  *)
(* containment violation is found by the placement resolver on the loaded  *)
(* document, after connect, join and load, and before any push: the call   *)
(* fails, pushes nothing and disconnects.                                  *)
C5_ContainmentAfterLoad ==
  \A c \in Clients :
    /\ failAt[c] = "validate" => err[c] \notin ContainmentErrors
    /\ err[c] \in ContainmentErrors =>
         /\ result[c] = "fail" /\ failAt[c] = "resolve"
         /\ Count(trace[c], <<"ack", LOAD>>) = 1
         /\ ~Emitted(c, PUSH) /\ applied[c] = <<>> /\ sock[c] = "closed"
    /\ pc[c] # "idle" /\ ViolatesContainment(inp[c]) =>
         /\ ~Emitted(c, PUSH)
         /\ Count(trace[c], <<"ack", LOAD>>) = 1 => err[c] \in ContainmentErrors

(* A paragraph placed under the page block: refused after the load.        *)
C5_Witness ==
  \E c \in Clients :
    /\ err[c] = "not under page" /\ failAt[c] = "resolve"
    /\ Count(trace[c], <<"ack", LOAD>>) = 1 /\ sock[c] = "closed"

(* C6: no retry.  The requests a call emits are a prefix of its plan, each *)
(* once; after the first timeout or error acknowledgement (the server's    *)
(* "not found" to a load is none) nothing more is emitted and the call     *)
(* returns failure.                                                        *)
C6_NoRetry ==
  \A c \in Clients :
    LET tr == trace[c]
        plan == Plan(inp[c].kind)
    IN
    /\ Len(Emits(tr)) <= Len(plan)
    /\ \A i \in 1..Len(Emits(tr)) : Emits(tr)[i][2] = plan[i]
    /\ \A i \in DOMAIN tr :
         tr[i][1] \in {"timeout", "nack", "connect_error", "connect_timeout"} =>
           /\ \A j \in DOMAIN tr : j > i => tr[j] = <<"disconnect", "">>
           /\ pc[c] = "returned" /\ result[c] = "fail"
           /\ failAt[c] = IF tr[i][2] = "" THEN "connect" ELSE tr[i][2]

(* A delete_doc whose push was refused: no delete notice follows.          *)
C6_Witness ==
  \E c \in Clients :
    /\ inp[c].kind = "delete_doc" /\ failAt[c] = PUSH /\ err[c] = "error"
    /\ ~Emitted(c, DELETE) /\ result[c] = "fail"

(* C7: a call that was started eventually returns, whatever the server     *)
(* does, provided the timers fire.                                         *)
C7_EventuallyReturns ==
  \A c \in Clients : (pc[c] # "idle") ~> (pc[c] = "returned")

(* A call returned by the load timer while its request was never handled.  *)
C7_Witness ==
  \E c \in Clients :
    /\ pc[c] = "returned" /\ failAt[c] = LOAD /\ err[c] = "timeout"
    /\ wire[c] # <<>> /\ Head(wire[c]).req = LOAD

(* Both calls are calls of the given kind, both returned success, and the  *)
(* server has handled everything they sent.                                *)
BothDone(kind) ==
  \A c \in Clients :
    inp[c].kind = kind /\ pc[c] = "returned" /\ result[c] = "ok" /\ wire[c] = <<>>

LinkedOnce(r, b) == Count(ChildrenOf(r, b.parent), b.id) = 1

(* C8: when two append_block calls on the same document have both          *)
(* succeeded and the server has merged their updates, the document holds   *)
(* both new blocks, and every block either call wrote is listed exactly    *)
(* once in the children of its parent.                                     *)
C8_BothAppendsKept ==
  BothDone("append_block") =>
    \A c \in Clients :
      LET r == sdocs[PageDoc].r IN
      /\ BlockIn(r, GenId(c, 2))
      /\ \A b \in r.blocks : b.item[1] = yid[c] => LinkedOnce(r, b)

(* C9: when two create_doc calls in the same workspace have both succeeded *)
(* and the server has merged their index updates, the catalog lists each   *)
(* of the two new documents once.                                          *)
C9_BothCatalogued ==
  BothDone("create_doc") =>
    \A c \in Clients : Count(ChildrenOf(sdocs[WsDoc].r, Meta), NewDocId(c)) = 1

(* C10: a document that had a page block before the calls has exactly one  *)
(* affine:page block and at most one affine:surface block, whatever        *)
(* append_block calls the server has merged.                               *)
C10_OnePageOneSurface ==
  sdocs[PageDoc].exists =>
    /\ Cardinality({b \in sdocs[PageDoc].r.blocks : b.flavour = "affine:page"}) = 1
    /\ Cardinality({b \in sdocs[PageDoc].r.blocks : b.flavour = "affine:surface"}) <= 1

-----------------------------------------------------------------------------
(* Containment, placement and the delta (C11 .. C20).                      *)

(* The parent-child pairs strict mode refuses, by the parent's flavour and *)
(* the kind of the new block.                                              *)
Refused(parentFlavour, type) ==
  \/ parentFlavour = "affine:page" /\ type # "note"
  \/ parentFlavour = "affine:surface" /\ type \notin {"frame", "edgeless_text"}
  \/ type = "note" /\ parentFlavour # "affine:page"
  \/ type \in {"frame", "edgeless_text"} /\ parentFlavour # "affine:surface"

(* The same pairs in a stored tree, by the flavours of parent and child;   *)
(* the surface under the page is the one pair strict appends do not make.  *)
RefusedPair(r, b) ==
  /\ BlockIn(r, b.parent)
  /\ LET pf == findBlockById(r, b.parent).flavour IN
     \/ pf = "affine:page" /\ b.flavour \notin {"affine:note", "affine:surface"}
     \/ pf = "affine:surface" /\ b.flavour \notin {"affine:frame", "affine:edgeless-text"}
     \/ b.flavour = "affine:note" /\ pf # "affine:page"
     \/ b.flavour \in {"affine:frame", "affine:edgeless-text"} /\ pf # "affine:surface"

NewBlock(c) == GenId(c, 2)

TypeOf(c) == normalizeAppendBlockInput(inp[c]).n.type

(* C11: a strict append_block whose resolved parent (named, taken from the *)
(* reference block, or implied by the kind) and kind form a refused pair   *)
(* fails and pushes nothing: a call that has built its block, or emitted a *)
(* push, built it under a parent that is not refused, and a call that      *)
(* failed on containment has pushed nothing.  So strict appends, in any    *)
(* sequence, leave no refused pair in the stored page.                     *)
C11_StrictContainment ==
  /\ \A c \in Clients :
       pc[c] # "idle" /\ inp[c].kind = "append_block" =>
         /\ Emitted(c, PUSH) => BlockIn(ldoc[c], NewBlock(c))
         /\ BlockIn(ldoc[c], NewBlock(c)) =>
              /\ BlockIn(ldoc[c], findBlockById(ldoc[c], NewBlock(c)).parent)
              /\ ~Refused(findBlockById(ldoc[c],
                                        findBlockById(ldoc[c], NewBlock(c)).parent).flavour,
                          TypeOf(c))
         /\ err[c] \in ContainmentErrors =>
              /\ result[c] = "fail" /\ failAt[c] = "resolve"
              /\ ~Emitted(c, PUSH) /\ applied[c] = <<>>
  /\ \A b \in sdocs[PageDoc].r.blocks : ~RefusedPair(sdocs[PageDoc].r, b)

(* B's paragraph stands under the note A appended before, and a refused    *)
(* call is among the two.                                                  *)
C11_Witness ==
  /\ result["A"] = "ok" /\ result["B"] = "ok"
  /\ BlockIn(sdocs[PageDoc].r, NewBlock("B"))
  /\ findBlockById(sdocs[PageDoc].r, NewBlock("B")).parent = NewBlock("A")
  /\ NewBlock("B") \in SeqToSet(ChildrenOf(sdocs[PageDoc].r, NewBlock("A")))

Got(c, ev, req) == Count(trace[c], <<ev, req>>) > 0

(* The document the load of the call addresses.                            *)
LoadTarget(c) == IF inp[c].kind \in {"create_doc", "delete_doc"} THEN WsDoc ELSE inp[c].docId

(* C12: a load that the server answers with DOC_NOT_FOUND resolves with an *)
(* empty result: the call does not fail at the load and its document stays *)
(* without a snapshot (read_doc then returns exists = false).  Any other   *)
(* error acknowledgement of a load fails the call at the load.  A plain    *)
(* acknowledgement resolves with the server's data: the handler's document *)
(* then holds what the server stores.                                      *)
C12_LoadDocOutcomes ==
  \A c \in Solo :
    /\ Got(c, "missing", LOAD) =>
         /\ failAt[c] # LOAD
         /\ ~out[c].exists
         /\ prevSV[c] = {}
         /\ inp[c].kind = "read_doc" /\ pc[c] = "returned" =>
              result[c] = "ok" /\ ldoc[c] = EmptyDoc
    /\ Got(c, "nack", LOAD) =>
         /\ pc[c] = "returned" /\ result[c] = "fail" /\ failAt[c] = LOAD
         /\ Count(trace[c], <<"emit", PUSH>>) = IF inp[c].kind = "create_doc" THEN 1 ELSE 0
    /\ Got(c, "ack", LOAD) =>
         /\ failAt[c] # LOAD
         /\ inp[c].kind = "read_doc" =>
              result[c] = "ok" /\ out[c].exists /\ ldoc[c] = sdocs[LoadTarget(c)].r
         /\ inp[c].kind # "read_doc" /\ LoadTarget(c) \notin SeqToSet(applied[c]) =>
              prevSV[c] = EncodeStateVector(sdocs[LoadTarget(c)].r)

(* create_doc went on after the workspace document was not found and has   *)
(* pushed the catalog.                                                     *)
C12_Witness ==
  /\ inp["A"].kind = "create_doc"
  /\ Got("A", "missing", LOAD)
  /\ result["A"] = "ok"
  /\ applied["A"] = <<NewDocId("A"), WsDoc>>

Catalog(r) == ChildrenOf(r, Meta)

PositionOf(tr, e) == IF \E i \in DOMAIN tr : tr[i] = e
                     THEN CHOOSE i \in DOMAIN tr : tr[i] = e /\ \A j \in 1..(i - 1) : tr[j] # e
                     ELSE 0

(* C13: create_doc sends no load for the new document; its first push is   *)
(* the full encoding of the new document under the fresh id; the load of   *)
(* the workspace document is emitted only after that push was acknowledged;*)
(* the index push adds exactly one catalog entry, for that id; and the     *)
(* server's catalog lists the id only when the content was acknowledged    *)
(* and is stored.                                                          *)
C13_ContentBeforeCatalog ==
  \A c \in Solo :
    pc[c] # "idle" /\ inp[c].kind = "create_doc" =>
      /\ \A i \in DOMAIN wire[c] :
           /\ wire[c][i].req = LOAD => wire[c][i].doc = WsDoc
           /\ wire[c][i].req = PUSH /\ step[c] = 2 =>
                /\ wire[c][i].doc = NewDocId(c)
                /\ wire[c][i].update =
                     EncodeStateAsUpdate(
                       NewDocContent(c, yid[c], inp[c].title, inp[c].content), {})
           /\ wire[c][i].req = PUSH /\ step[c] = 4 =>
                /\ wire[c][i].doc = WsDoc
                /\ Catalog(ldoc[c]) = Catalog(sdocs[WsDoc].r) \o <<NewDocId(c)>>
                /\ Catalog(ApplyUpdate(sdocs[WsDoc].r, wire[c][i].update)) = Catalog(ldoc[c])
      /\ Emitted(c, LOAD) =>
           /\ PositionOf(trace[c], <<"ack", PUSH>>) > 0
           /\ PositionOf(trace[c], <<"ack", PUSH>>) < PositionOf(trace[c], <<"emit", LOAD>>)
           /\ Count(trace[c], <<"emit", LOAD>>) = 1
      /\ Count(Catalog(sdocs[WsDoc].r), NewDocId(c)) <= 1
      /\ Count(Catalog(sdocs[WsDoc].r), NewDocId(c)) = 1 =>
           /\ Got(c, "ack", PUSH)
           /\ sdocs[NewDocId(c)].exists
           /\ sdocs[NewDocId(c)].r =
                NewDocContent(c, yid[c], inp[c].title, inp[c].content)
           /\ applied[c] = <<NewDocId(c), WsDoc>>

(* create_doc has returned and the catalog, which listed PageDoc, lists    *)
(* the new document after it.                                              *)
C13_Witness ==
  /\ inp["A"].kind = "create_doc" /\ result["A"] = "ok"
  /\ Catalog(sdocs[WsDoc].r) = <<PageDoc, NewDocId("A")>>
  /\ sdocs[NewDocId("A")].exists

RECURSIVE RemoveFirst(_, _)
RemoveFirst(seq, v) ==
  IF seq = <<>> THEN <<>>
  ELSE IF Head(seq) = v THEN Tail(seq)
  ELSE <<Head(seq)>> \o RemoveFirst(Tail(seq), v)

Last(tr) == tr[Len(tr)]

(* C14: delete_doc loads the workspace document and pushes the delta that  *)
(* removes the first catalog entry with the given id, if there is one, and *)
(* nothing else; it emits space:delete-doc for the given document only     *)
(* when that push was acknowledged, directly after the acknowledgement,    *)
(* awaits nothing for it and returns successfully.                         *)
C14_DeleteAfterIndexPush ==
  \A c \in Solo :
    pc[c] # "idle" /\ inp[c].kind = "delete_doc" =>
      /\ \A i \in DOMAIN wire[c] :
           /\ wire[c][i].req \in {LOAD, PUSH} => wire[c][i].doc = WsDoc
           /\ wire[c][i].req = DELETE => wire[c][i].doc = inp[c].docId
           /\ wire[c][i].req = PUSH =>
                /\ Catalog(ldoc[c]) = RemoveFirst(Catalog(sdocs[WsDoc].r), inp[c].docId)
                /\ Catalog(ApplyUpdate(sdocs[WsDoc].r, wire[c][i].update)) = Catalog(ldoc[c])
      /\ Emitted(c, DELETE) =>
           /\ Count(trace[c], <<"emit", DELETE>>) = 1
           /\ PositionOf(trace[c], <<"ack", PUSH>>) + 1 = PositionOf(trace[c], <<"emit", DELETE>>)
           /\ PositionOf(trace[c], <<"emit", LOAD>>) < PositionOf(trace[c], <<"emit", PUSH>>)
           /\ applied[c] = <<WsDoc>>
           /\ pc[c] = "returned" /\ result[c] = "ok"
           /\ Last(trace[c]) = <<"disconnect", "">>
           /\ Len(trace[c]) = PositionOf(trace[c], <<"emit", DELETE>>) + 1
      /\ result[c] = "ok" => Emitted(c, DELETE)
      /\ ~Emitted(c, DELETE) => sdocs[inp[c].docId] \in {Stored(LegacyPage), Stored(FullPage),
                                 Stored(SparsePage), Stored(BarePage), Stored(Orphaned),
                                 NotStored}

(* The catalog listed PageDoc twice; the first entry is gone, the second   *)
(* stays, and the server has dropped the document on the notice.           *)
C14_Witness ==
  /\ inp["A"].kind = "delete_doc" /\ inp["A"].docId = PageDoc
  /\ result["A"] = "ok"
  /\ Catalog(sdocs[WsDoc].r) = <<NewDocId("B"), PageDoc>>
  /\ ~sdocs[PageDoc].exists

RECURSIVE IsSubseq(_, _)
IsSubseq(small, big) ==
  IF small = <<>> THEN TRUE
  ELSE IF big = <<>> THEN FALSE
  ELSE IF Head(small) = Head(big) THEN IsSubseq(Tail(small), Tail(big))
  ELSE IsSubseq(small, Tail(big))

(* The tree of `small` is found in `big`: every block with its flavour,    *)
(* parent and text, and every list of children in its order.               *)
Embeds(big, small) ==
  /\ \A b \in small.blocks :
       /\ BlockIn(big, b.id)
       /\ findBlockById(big, b.id) = b
       /\ IsSubseq(ChildrenOf(small, b.id), ChildrenOf(big, b.id))
  /\ IsSubseq(Catalog(small), Catalog(big))

(* The push of a delta: the oldest request on c's socket is the push of a  *)
(* document the handler has loaded.                                        *)
DeltaPush(c) ==
  /\ wire[c] # <<>>
  /\ Head(wire[c]).req = PUSH
  /\ inp[c].kind = "create_doc" => Head(wire[c]).doc = WsDoc

ItemsIn(u) ==
  {b.item : b \in u.blocks} \cup {a.id : a \in u.arrs}
    \cup UNION {{x.id : x \in SeqToSet(a.items)} : a \in u.arrs}
    \cup {u.ins[i].it.id : i \in DOMAIN u.ins}

(* What the server's replica becomes when it applies the pushed delta.     *)
Merged(c) == ApplyUpdate(sdocs[Head(wire[c]).doc].r, Head(wire[c]).update)

(* The replica the server holds for the document of c's push: whether it  *)
(* holds every item of the snapshot c loaded, and whether it holds nothing *)
(* else (no further item, no further deletion).                            *)
Deleted(r) == UNION {{x.id : x \in {y \in SeqToSet(a.items) : y.del}} : a \in r.arrs}

HoldsSnapshot(c) ==
  prevSV[c] \subseteq ItemsIn(sdocs[Head(wire[c]).doc].r @@ [ins |-> <<>>])

NothingDeletedSince(c) == Deleted(sdocs[Head(wire[c]).doc].r) \subseteq Deleted(ldoc[c])

IsSnapshot(c) ==
  /\ prevSV[c] = ItemsIn(sdocs[Head(wire[c]).doc].r @@ [ins |-> <<>>])
  /\ NothingDeletedSince(c)

NoRivalArray(c) ==
  \A a \in Head(wire[c]).update.arrs :
    \A b \in sdocs[Head(wire[c]).doc].r.arrs : b.owner = a.owner => b.id = a.id

(* C15, as the specification states it: the pushed delta, applied to any   *)
(* replica that holds at least the loaded snapshot, yields the tree of the *)
(* handler's in-memory document (read in the weakest sense: that tree is   *)
(* found in the result, whatever else the replica holds).                  *)
C15_DeltaOnAnyReplica ==
  \A c \in Clients :
    DeltaPush(c) /\ HoldsSnapshot(c) => Embeds(Merged(c), ldoc[c])

(* C15, amended: the state vector is captured before the call writes       *)
(* anything (it covers no item of the call's own clientID, lazily created  *)
(* note, surface or array included) and the pushed update carries exactly  *)
(* the items of the in-memory document that the vector does not cover.     *)
(* Applied to a replica that holds exactly the loaded snapshot the delta   *)
(* yields the in-memory document.  Applied to a replica that holds more,   *)
(* it yields a merge that keeps every block of both; the in-memory tree is *)
(* found in it when the replica has deleted nothing since and the delta    *)
(* sets no sys:children or pages array for an owner for which the replica  *)
(* holds another one.                                                      *)
C15_DeltaSinceSnapshot ==
  \A c \in Clients :
    DeltaPush(c) =>
      /\ \A i \in prevSV[c] : i[1] # yid[c]
      /\ ItemsIn(Head(wire[c]).update) \cap prevSV[c] = {}
      /\ ItemsIn(Head(wire[c]).update) \cup prevSV[c] = ItemsIn(ldoc[c] @@ [ins |-> <<>>])
      /\ IsSnapshot(c) => Merged(c) = ldoc[c]
      /\ HoldsSnapshot(c) =>
           /\ ldoc[c].blocks \cup sdocs[Head(wire[c]).doc].r.blocks = Merged(c).blocks
           /\ NothingDeletedSince(c) /\ NoRivalArray(c) => Embeds(Merged(c), ldoc[c])

(* A frame is about to be pushed to a page that had no surface: the delta  *)
(* carries the lazily created surface, and the server still holds exactly  *)
(* the snapshot.                                                           *)
C15_Witness ==
  /\ DeltaPush("A") /\ inp["A"].type = "frame" /\ inp["A"].kind = "append_block"
  /\ IsSnapshot("A")
  /\ \E b \in Head(wire["A"]).update.blocks : b.flavour = "affine:surface"
  /\ pc["B"] = "returned"

(* The selectors a request's placement carries; an id of white space only *)
(* names nothing.                                                          *)
HasAfter(c)  == inp[c].placement.afterBlockId \notin {NoBlock, Blank}
HasBefore(c) == inp[c].placement.beforeBlockId \notin {NoBlock, Blank}
HasIndex(c)  == inp[c].placement.index # -1
HasParent(c) == inp[c].placement.parentId \notin {NoBlock, Blank}

(* An append_block call that passed normalization and names a reference.  *)
ByReference(c) ==
  /\ pc[c] # "idle" /\ inp[c].kind = "append_block" /\ LocalValidation(inp[c]) = ""
  /\ (HasAfter(c) \/ HasBefore(c))

RefOf(c) == IF HasAfter(c) THEN inp[c].placement.afterBlockId
            ELSE inp[c].placement.beforeBlockId

(* The ids a parent lists in replica r, in order.                          *)
Listed(r, parent) == childIdsFrom(ChildrenOf(r, parent))

(* In replica r the reference exists, names a parent, and that parent      *)
(* exists and lists it.                                                    *)
Usable(r, ref) ==
  /\ BlockIn(r, ref)
  /\ findBlockById(r, ref).parent # NoBlock
  /\ BlockIn(r, findBlockById(r, ref).parent)
  /\ ref \in SeqToSet(Listed(r, findBlockById(r, ref).parent))

Loads(c) == Got(c, "ack", LOAD) \/ Got(c, "missing", LOAD)

(* The page as the call loaded it: the server's copy without the call's    *)
(* own block, while no other call writes.                                  *)
EntriesBefore(c, parent) ==
  RemoveFirst(ChildrenOf(sdocs[inp[c].docId].r, parent), NewBlock(c))

(* C16: an append_block with afterBlockId = R (beforeBlockId = R) that     *)
(* has built its block has put it under R's parent, immediately after      *)
(* (before) R among the ids the parent lists, R being listed as a bare id  *)
(* or inside an array entry, and has left the other entries as they were;  *)
(* the server's copy shows the same once the push is applied.  The call    *)
(* fails in the placement resolution, pushing nothing, when R does not     *)
(* exist, has no parent, or is not listed by its parent, and for no other  *)
(* reason than these and the containment rules.                            *)
C16_RelativePlacement ==
  \A c \in Solo :
    ByReference(c) =>
      /\ BlockIn(ldoc[c], NewBlock(c)) =>
           LET parent == findBlockById(ldoc[c], RefOf(c)).parent
               ids    == Listed(ldoc[c], parent)
               at     == IndexOfEntry(ids, NewBlock(c)) + 1
           IN /\ findBlockById(ldoc[c], NewBlock(c)).parent = parent
              /\ Count(ids, NewBlock(c)) = 1
              /\ HasAfter(c) => at > 1 /\ ids[at - 1] = RefOf(c)
              /\ ~HasAfter(c) => at < Len(ids) /\ ids[at + 1] = RefOf(c)
              /\ RemoveFirst(ChildrenOf(ldoc[c], parent), NewBlock(c)) = EntriesBefore(c, parent)
              /\ applied[c] # <<>> =>
                   ChildrenOf(sdocs[inp[c].docId].r, parent) = ChildrenOf(ldoc[c], parent)
      /\ Loads(c) /\ ~Usable(sdocs[inp[c].docId].r, RefOf(c)) =>
           /\ result[c] = "fail" /\ failAt[c] = "resolve"
           /\ err[c] \in {"reference not found", "reference has no parent",
                           "parent not found", "reference is not a child of its parent"}
           /\ ~Emitted(c, PUSH) /\ applied[c] = <<>>
      /\ failAt[c] = "resolve" =>
           ~Usable(sdocs[inp[c].docId].r, RefOf(c)) \/ err[c] \in ContainmentErrors
      /\ Emitted(c, PUSH) => BlockIn(ldoc[c], NewBlock(c))

(* The new block stands before P2, which its parent lists inside an array  *)
(* entry, and after P1, in the server's copy.                              *)
C16_Witness ==
  /\ inp["A"].placement.beforeBlockId = P2 /\ result["A"] = "ok"
  /\ Listed(sdocs[PageDoc].r, NT) = <<P1, NewBlock("A"), P2>>
  /\ ChildrenOf(sdocs[PageDoc].r, NT) = <<P1, NewBlock("A"), Wrapped(P2)>>

(* An append_block call that passed normalization and names a parent and  *)
(* no reference.                                                           *)
ByParent(c) ==
  /\ pc[c] # "idle" /\ inp[c].kind = "append_block" /\ LocalValidation(inp[c]) = ""
  /\ HasParent(c) /\ ~HasAfter(c) /\ ~HasBefore(c)

IsStrict(c) == inp[c].strict # "false"

(* C17: for an append_block with an explicit parentId whose parent lists N *)
(* entries: with no index, or with index = N, the new block is the last    *)
(* entry; with 0 <= index < N it is the entry at position index; with      *)
(* index > N a strict call fails in the placement resolution and pushes    *)
(* nothing, and a non-strict call puts the block last.  The other entries  *)
(* keep their order.                                                       *)
C17_IndexedPlacement ==
  \A c \in Solo :
    ByParent(c) =>
      LET parent == inp[c].placement.parentId
          index  == inp[c].placement.index
          N      == Len(EntriesBefore(c, parent))
      IN
      /\ BlockIn(ldoc[c], NewBlock(c)) =>
           /\ findBlockById(ldoc[c], NewBlock(c)).parent = parent
           /\ Count(ChildrenOf(ldoc[c], parent), NewBlock(c)) = 1
           /\ RemoveFirst(ChildrenOf(ldoc[c], parent), NewBlock(c)) = EntriesBefore(c, parent)
           /\ IndexOfEntry(ChildrenOf(ldoc[c], parent), NewBlock(c)) =
                (IF index = -1 \/ index >= N THEN N ELSE index)
           /\ index > N => ~IsStrict(c)
           /\ applied[c] # <<>> =>
                ChildrenOf(sdocs[inp[c].docId].r, parent) = ChildrenOf(ldoc[c], parent)
      /\ Got(c, "ack", LOAD) /\ BlockIn(sdocs[inp[c].docId].r, parent)
           /\ index > N /\ IsStrict(c) =>
           /\ result[c] = "fail" /\ failAt[c] = "resolve" /\ err[c] = "index out of range"
           /\ ~Emitted(c, PUSH) /\ applied[c] = <<>>
      /\ failAt[c] = "resolve" =>
           \/ ~BlockIn(sdocs[inp[c].docId].r, parent)
           \/ index > N /\ IsStrict(c)
           \/ err[c] \in ContainmentErrors
      /\ Emitted(c, PUSH) => BlockIn(ldoc[c], NewBlock(c))

(* index 1 of 2: the new block stands between the two entries the note     *)
(* listed, in the server's copy.                                           *)
C17_Witness ==
  /\ ByParent("A") /\ inp["A"].placement.index = 1 /\ result["A"] = "ok"
  /\ ChildrenOf(sdocs[PageDoc].r, NT) = <<P1, NewBlock("A"), Wrapped(P2)>>

RefusedAtOnce(c) ==
  /\ pc[c] = "returned" /\ result[c] = "fail" /\ failAt[c] = "validate"
  /\ trace[c] = <<>> /\ sock[c] = "none" /\ wire[c] = <<>> /\ applied[c] = <<>>

(* C18: an append_block whose placement names both afterBlockId and        *)
(* beforeBlockId, or an index together with either of them, is refused     *)
(* with the placement's validation error before anything else happens,     *)
(* whatever the kind and whether strict or not.                            *)
C18_SelectorsRefused ==
  \A c \in Solo :
    pc[c] # "idle" /\ inp[c].kind = "append_block"
      /\ ((HasAfter(c) /\ HasBefore(c)) \/ (HasIndex(c) /\ (HasAfter(c) \/ HasBefore(c)))) =>
      /\ RefusedAtOnce(c)
      /\ inp[c].type \in APPEND_BLOCK_CANONICAL_TYPE_VALUES =>
           err[c] = IF HasAfter(c) /\ HasBefore(c)
                    THEN "after and before are mutually exclusive"
                    ELSE "index cannot be used with after/before"

(* A non-strict frame with an index and a beforeBlockId was refused.       *)
C18_Witness ==
  /\ RefusedAtOnce("A")
  /\ inp["A"].type = "frame" /\ inp["A"].strict = "false"
  /\ HasIndex("A") /\ HasBefore("A") /\ ~HasAfter("A")
  /\ err["A"] = "index cannot be used with after/before"

(* C19: an append_block whose placement names a parentId together with an *)
(* afterBlockId or a beforeBlockId is refused by the validation, before    *)
(* anything else happens.                                                  *)
C19_ParentWithReferenceRefused ==
  \A c \in Solo :
    pc[c] # "idle" /\ inp[c].kind = "append_block"
      /\ HasParent(c) /\ (HasAfter(c) \/ HasBefore(c)) =>
      RefusedAtOnce(c)

(* An append_block call that passed normalization and names no parent and *)
(* no reference.                                                           *)
ByDefault(c) ==
  /\ pc[c] # "idle" /\ inp[c].kind = "append_block" /\ LocalValidation(inp[c]) = ""
  /\ ~HasParent(c) /\ ~HasAfter(c) /\ ~HasBefore(c)

(* The flavour of the parent a kind implies.                               *)
ContainerOf(type) ==
  IF type \in {"frame", "edgeless_text"} THEN "affine:surface"
  ELSE IF type = "note" THEN "affine:page"
  ELSE "affine:note"

(* The document as the call loaded it: the in-memory document without the  *)
(* items the call wrote.                                                   *)
Snapshot(c) ==
  [blocks |-> {b \in ldoc[c].blocks : b.item[1] # yid[c]},
   arrs   |-> {[a EXCEPT !.items = SelectSeq(@, LAMBDA x : x.id[1] # yid[c])] :
                 a \in {x \in ldoc[c].arrs : x.id[1] # yid[c]}}]

NoPage(r) == findBlockIdByFlavour(r, "affine:page") = NoBlock

(* Neither the container the kind implies nor a page to create it under.   *)
NoContainer(r, type) ==
  NoPage(r) /\ findBlockIdByFlavour(r, ContainerOf(type)) = NoBlock

(* The container was made by the call: a child of the page, the last the   *)
(* page lists, and a note has the default geometry and background.         *)
MadeUnderPage(c, parent) ==
  /\ parent = GenId(c, 1)
  /\ ~NoPage(Snapshot(c))
  /\ findBlockById(ldoc[c], parent).parent = findBlockIdByFlavour(Snapshot(c), "affine:page")
  /\ ChildrenOf(ldoc[c], findBlockById(ldoc[c], parent).parent) =
       ChildrenOf(Snapshot(c), findBlockById(ldoc[c], parent).parent) \o <<parent>>
  /\ findBlockById(ldoc[c], parent).flavour = "affine:note" =>
       /\ findBlockById(ldoc[c], parent).xywh = <<0, 0, 800, 95>>
       /\ findBlockById(ldoc[c], parent).background = <<"#ffffff", "#252525">>

(* The new block is the last child of the container of its kind, which is  *)
(* the first the loaded document holds or else made by the call.           *)
UnderContainer(c, parent) ==
  /\ BlockIn(ldoc[c], parent)
  /\ findBlockById(ldoc[c], parent).flavour = ContainerOf(inp[c].type)
  /\ ChildrenOf(ldoc[c], parent) = ChildrenOf(Snapshot(c), parent) \o <<NewBlock(c)>>
  /\ IF findBlockIdByFlavour(Snapshot(c), ContainerOf(inp[c].type)) # NoBlock
     THEN /\ parent = findBlockIdByFlavour(Snapshot(c), ContainerOf(inp[c].type))
          /\ ldoc[c].blocks = Snapshot(c).blocks \cup {findBlockById(ldoc[c], NewBlock(c))}
     ELSE /\ MadeUnderPage(c, parent)
          /\ ldoc[c].blocks = Snapshot(c).blocks
               \cup {findBlockById(ldoc[c], NewBlock(c)), findBlockById(ldoc[c], parent)}
  /\ result[c] = "ok" => sdocs[inp[c].docId].r = ldoc[c]

(* The failure of a default placement: `missing` says whether the loaded   *)
(* document lacks what the append needs.                                   *)
DefaultPlacement(c, missing) ==
  /\ BlockIn(ldoc[c], NewBlock(c)) =>
       UnderContainer(c, findBlockById(ldoc[c], NewBlock(c)).parent)
  /\ Loads(c) /\ missing =>
       /\ result[c] = "fail" /\ failAt[c] = "resolve" /\ err[c] = "no page block"
       /\ ~Emitted(c, PUSH) /\ applied[c] = <<>>
  /\ failAt[c] = "resolve" => missing
  /\ Emitted(c, PUSH) => BlockIn(ldoc[c], NewBlock(c))
  /\ result[c] = "ok" => BlockIn(sdocs[inp[c].docId].r, NewBlock(c))

(* C20, as the specification states it: with no parentId, afterBlockId or  *)
(* beforeBlockId (an index alone is not applied) the block becomes the     *)
(* last child of the surface (frame, edgeless_text; made under the page if *)
(* absent), of the page (note) or of the first note (every other kind;     *)
(* made under the page with default geometry and background if absent);    *)
(* when the loaded document has no page block the append fails and nothing *)
(* is pushed.                                                              *)
C20_NoPageNoAppend ==
  \A c \in Solo :
    ByDefault(c) => DefaultPlacement(c, NoPage(sdocs[inp[c].docId].r))

(* C20, amended: the same placement; the append fails, pushing nothing,    *)
(* when the loaded document has no page block and, for a kind other than   *)
(* note, no surface (frame, edgeless_text) or note (the others) either.  A *)
(* document that has the container and no page takes the block under the   *)
(* container.                                                              *)
C20_DefaultPlacement ==
  \A c \in Solo :
    ByDefault(c) => DefaultPlacement(c, NoContainer(sdocs[inp[c].docId].r, inp[c].type))

(* A list item was appended, with an index alone, to a page that had no    *)
(* note: the server holds the new note, last under the page, and the item  *)
(* under it.                                                               *)
C20_Witness ==
  /\ ByDefault("A") /\ HasIndex("A") /\ inp["A"].type = "list" /\ result["A"] = "ok"
  /\ sdocs[PageDoc].r.blocks # {}
  /\ findBlockById(sdocs[PageDoc].r, NewBlock("A")).parent = GenId("A", 1)
  /\ ChildrenOf(sdocs[PageDoc].r, PG) = <<GenId("A", 1)>>
  /\ ChildrenOf(sdocs[PageDoc].r, GenId("A", 1)) = <<NewBlock("A")>>

-----------------------------------------------------------------------------
(* Failed resolutions, read-after-create, normalization, the tree and the  *)
(* settling of promises (C21 .. C30).                                      *)

ResolveFailed(c) ==
  pc[c] = "returned" /\ inp[c].kind = "append_block" /\ failAt[c] = "resolve"

(* The children arrays the in-memory document holds and the server's copy  *)
(* does not.                                                               *)
NewArrays(c) == ldoc[c].arrs \ sdocs[inp[c].docId].r.arrs

(* C21, as the specification states it: when the placement resolution of   *)
(* append_block fails, the in-memory document is exactly the loaded        *)
(* snapshot and no push is sent.                                           *)
C21_FailedResolveLeavesSnapshot ==
  \A c \in Solo :
    ResolveFailed(c) =>
      /\ ldoc[c] = sdocs[inp[c].docId].r
      /\ ~Emitted(c, PUSH) /\ applied[c] = <<>>

(* C21, amended: when the placement resolution fails, no push is sent and  *)
(* the in-memory document holds the blocks of the loaded snapshot and no   *)
(* other (no new block, no lazily created note or surface) and every       *)
(* children array of the snapshot unchanged.  It is exactly the snapshot   *)
(* unless the failure is "reference is not a child of its parent" or       *)
(* "index out of range" and the target parent had no children array: then  *)
(* it holds one more array, the empty one just created for that parent.    *)
C21_FailedResolveBuildsNothing ==
  \A c \in Solo :
    ResolveFailed(c) =>
      /\ ~Emitted(c, PUSH) /\ applied[c] = <<>>
      /\ ldoc[c].blocks = sdocs[inp[c].docId].r.blocks
      /\ sdocs[inp[c].docId].r.arrs \subseteq ldoc[c].arrs
      /\ err[c] \notin {"reference is not a child of its parent", "index out of range"} =>
           ldoc[c] = sdocs[inp[c].docId].r
      /\ \A a \in NewArrays(c) :
           /\ a = YArray(a.owner, <<yid[c], 5>>)
           /\ BlockIn(ldoc[c], a.owner)
           /\ ~HasArr(sdocs[inp[c].docId].r, a.owner)
           /\ NewArrays(c) = {a}
           /\ a.owner = IF HasAfter(c) \/ HasBefore(c)
                        THEN findBlockById(ldoc[c], RefOf(c)).parent
                        ELSE inp[c].placement.parentId

(* A strict append at index 2 under a note that had no children array has  *)
(* failed: the in-memory note has an empty array, nothing was pushed.      *)
C21_Witness ==
  /\ ResolveFailed("A") /\ err["A"] = "index out of range"
  /\ inp["A"].placement.index = 2
  /\ NewArrays("A") = {YArray(NT, <<yid["A"], 5>>)}
  /\ sdocs[PageDoc].r = SparsePage

(* What the read_doc of client c has returned.                             *)
Response(c) == ReadOutput(ldoc[c], out[c].exists)

(* create_doc of A has succeeded and the read_doc of B, started after it,  *)
(* has returned the new document.                                          *)
ReadAfterCreate ==
  /\ inp["A"].kind = "create_doc" /\ result["A"] = "ok"
  /\ inp["B"].kind = "read_doc" /\ inp["B"].docId = NewDocId("A") /\ result["B"] = "ok"

RowsOfNewDoc(page, surface, note, para, content) ==
  <<[id |-> page, parentId |-> NoBlock, flavour |-> "affine:page", text |-> "",
     childIds |-> <<surface, note>>],
    [id |-> surface, parentId |-> page, flavour |-> "affine:surface", text |-> "",
     childIds |-> <<>>],
    [id |-> note, parentId |-> page, flavour |-> "affine:note", text |-> "",
     childIds |-> IF content = "" THEN <<>> ELSE <<para>>]>>
  \o (IF content = "" THEN <<>>
      ELSE <<[id |-> para, parentId |-> note, flavour |-> "affine:paragraph",
              text |-> content, childIds |-> <<>>]>>)

(* C22: the read_doc of the document a successful create_doc(T, C) made,   *)
(* nothing else having written, reports exists, the title T ("Untitled"    *)
(* when T is empty), and exactly the page, the surface and the note, and   *)
(* one paragraph under the note with text C exactly when C is not empty.   *)
C22_ReadAfterCreate ==
  ReadAfterCreate =>
    /\ Response("B").exists
    /\ Response("B").title = (IF inp["A"].title = "" THEN "Untitled" ELSE inp["A"].title)
    /\ Response("B").blockCount = (IF inp["A"].content = "" THEN 3 ELSE 4)
    /\ Response("B").blocks =
         RowsOfNewDoc(GenId("A", 1), GenId("A", 2), GenId("A", 3), GenId("A", 4),
                      inp["A"].content)

(* A document made with no title and a content of one blank was read back: *)
(* title "Untitled", four rows, the paragraph holds the blank.             *)
C22_Witness ==
  /\ ReadAfterCreate /\ inp["A"].title = "" /\ inp["A"].content = " "
  /\ Response("B").title = "Untitled" /\ Response("B").blockCount = 4
  /\ Response("B").blocks[4].text = " "

(* An append_block call of c is under way or has returned.                 *)
Appending(c) == pc[c] # "idle" /\ inp[c].kind = "append_block"

(* The type name of c's request, trimmed and in lower case (the names the  *)
(* requests are drawn from).                                               *)
NameOf(c) ==
  CASE inp[c].type \in {" paragraph ", "PARAGRAPH"} -> "paragraph"
    [] inp[c].type = "Heading2" -> "heading2"
    [] inp[c].type = "TODO" -> "todo"
    [] inp[c].type = " " -> ""
    [] OTHER -> inp[c].type

HeadingAliases == {"heading1", "heading2", "heading3"}
ListAliases == {"bulleted_list", "numbered_list", "todo"}

(* The kind a type name stands for, "" when it stands for none.            *)
KindOf(c) ==
  IF NameOf(c) \in APPEND_BLOCK_CANONICAL_TYPE_VALUES THEN NameOf(c)
  ELSE IF NameOf(c) \in HeadingAliases THEN "heading"
  ELSE IF NameOf(c) \in ListAliases THEN "list"
  ELSE ""

(* The block c's call has built, in its in-memory document.                *)
HasBuilt(c) == Appending(c) /\ BlockIn(ldoc[c], NewBlock(c))
NewOf(c) == findBlockById(ldoc[c], NewBlock(c))

(* C23: a canonical name or a legacy alias, trimmed and lower-cased,       *)
(* resolves to its kind and any other name is refused as unsupported;      *)
(* heading1/2/3 give a heading of level 1/2/3 and bulleted_list,           *)
(* numbered_list, todo a list of that style; the block built has the       *)
(* flavour of its kind (affine:paragraph for paragraph, heading and quote, *)
(* affine:database for data_view) and sys:version 1; the result reports    *)
(* the kind as normalizedType and the alias, or null, as legacyType.       *)
C23_TypeNamesResolve ==
  \A c \in Solo :
    Appending(c) =>
      /\ KindOf(c) = "" => RefusedAtOnce(c) /\ err[c] = "unsupported type"
      /\ KindOf(c) # "" => err[c] # "unsupported type"
      /\ HasBuilt(c) =>
           /\ KindOf(c) # ""
           /\ NewOf(c).version = 1
           /\ KindOf(c) \in {"paragraph", "heading", "quote"} =>
                NewOf(c).flavour = "affine:paragraph"
           /\ KindOf(c) \in {"database", "data_view"} => NewOf(c).flavour = "affine:database"
           /\ KindOf(c) = "list" => NewOf(c).flavour = "affine:list"
           /\ KindOf(c) = "embed_synced_doc" => NewOf(c).flavour = "affine:embed-synced-doc"
           /\ NameOf(c) = "heading1" => NewOf(c).ptype = <<"h", 1>>
           /\ NameOf(c) = "heading2" => NewOf(c).ptype = <<"h", 2>>
           /\ NameOf(c) = "heading3" => NewOf(c).ptype = <<"h", 3>>
           /\ NameOf(c) = "bulleted_list" => NewOf(c).ptype = <<"bulleted", 0>>
           /\ NameOf(c) = "numbered_list" => NewOf(c).ptype = <<"numbered", 0>>
           /\ NameOf(c) = "todo" => NewOf(c).ptype = <<"todo", 0>>
      /\ result[c] = "ok" =>
           /\ AppendResult(normalizeAppendBlockInput(inp[c]).n).normalizedType = KindOf(c)
           /\ AppendResult(normalizeAppendBlockInput(inp[c]).n).legacyType =
                (IF NameOf(c) \in HeadingAliases \cup ListAliases THEN NameOf(c) ELSE "")

(* The list style of c's request: the alias's, else the given one, else    *)
(* bulleted.                                                               *)
StyleOf(c) ==
  CASE NameOf(c) = "bulleted_list" -> "bulleted"
    [] NameOf(c) = "numbered_list" -> "numbered"
    [] NameOf(c) = "todo" -> "todo"
    [] OTHER -> IF "style" \in inp[c].given THEN inp[c].style ELSE "bulleted"

UrlKinds ==
  {"bookmark", "embed_youtube", "embed_github", "embed_figma", "embed_loom", "embed_iframe"}

EmbedKinds ==
  {"embed_youtube", "embed_github", "embed_figma", "embed_loom", "embed_html",
   "embed_linked_doc", "embed_synced_doc", "embed_iframe"}

(* The kinds an optional field is meaningful for.                          *)
Meaningful(f, c) ==
  CASE f = "level" -> KindOf(c) = "heading"
    [] f = "style" -> KindOf(c) = "list"
    [] f = "checked" -> KindOf(c) = "list" /\ StyleOf(c) = "todo"
    [] f = "language" -> KindOf(c) = "code"
    [] f = "url" -> KindOf(c) \in UrlKinds
    [] f \in {"rows", "columns"} -> KindOf(c) = "table"
    [] f = "bookmarkStyle" -> KindOf(c) = "bookmark"
    [] f = "caption" ->
         KindOf(c) \in {"code", "bookmark", "image", "attachment", "surface_ref"} \cup EmbedKinds
    [] f \in {"sourceId", "name", "mimeType", "embed", "size"} ->
         KindOf(c) \in {"image", "attachment"}
    [] f = "latex" -> KindOf(c) = "latex"
    [] f = "pageId" -> KindOf(c) \in {"embed_linked_doc", "embed_synced_doc"}
    [] f \in {"html", "design"} -> KindOf(c) = "embed_html"
    [] f = "iframeUrl" -> KindOf(c) = "embed_iframe"
    [] f \in {"reference", "refFlavour"} -> KindOf(c) = "surface_ref"
    [] f \in {"width", "height"} -> KindOf(c) \in {"frame", "edgeless_text", "note"}
    [] f = "background" -> KindOf(c) \in {"frame", "note"}
    [] OTHER -> TRUE

Superfluous(c) == {f \in inp[c].given : ~Meaningful(f, c)}

(* The request of c without its superfluous fields, in strict mode.       *)
Pruned(c) == [inp[c] EXCEPT !.given = @ \ Superfluous(c), !.strict = "absent"]

Lacks(c, f) == f \notin inp[c].given \/ inp[c][f] = ""

(* The request of c lacks a field its kind requires.                       *)
LacksRequired(c) ==
  \/ KindOf(c) \in UrlKinds /\ ("url" \notin inp[c].given \/ ~IsUrl(inp[c].url))
  \/ KindOf(c) \in {"image", "attachment"} /\ Lacks(c, "sourceId")
  \/ KindOf(c) = "attachment" /\ (Lacks(c, "name") \/ Lacks(c, "mimeType"))
  \/ KindOf(c) \in {"embed_linked_doc", "embed_synced_doc"} /\ Lacks(c, "pageId")
  \/ KindOf(c) = "embed_html" /\ Lacks(c, "html") /\ Lacks(c, "design")
  \/ KindOf(c) = "surface_ref" /\ (Lacks(c, "reference") \/ Lacks(c, "refFlavour"))

(* C25: a request that lacks a required field of its kind (a valid url; a  *)
(* sourceId; name and mimeType of an attachment; a pageId; html or design; *)
(* reference and refFlavour) is refused by the normalization, strict or    *)
(* not; a latex request without an expression is refused in strict mode    *)
(* only.                                                                   *)
C25_RequiredFields ==
  \A c \in Solo :
    Appending(c) =>
      /\ LacksRequired(c) => RefusedAtOnce(c)
      /\ KindOf(c) = "latex" /\ Lacks(c, "latex") /\ inp[c].strict # "false" => RefusedAtOnce(c)
      /\ KindOf(c) = "latex" /\ inp[c].given \subseteq {"latex"} /\ inp[c].strict = "false" =>
           failAt[c] # "validate"

(* The part of C25 without the two requirements the normalization does not *)
(* enforce: name and mimeType of an attachment, and html or design without *)
(* strict mode.                                                            *)
C25_Enforced ==
  \A c \in Solo :
    Appending(c) /\ LacksRequired(c)
      /\ ~(KindOf(c) = "attachment" /\ ~Lacks(c, "sourceId"))
      /\ ~(KindOf(c) = "embed_html" /\ inp[c].strict = "false")
      => RefusedAtOnce(c)

(* C26: a list block built by append_block carries prop:checked only when *)
(* its style is todo, and then with the requested value (false when        *)
(* checked is omitted); a bulleted or numbered list block carries none.    *)
C26_CheckedOnlyOnTodo ==
  \A c \in Solo :
    HasBuilt(c) /\ KindOf(c) = "list" =>
      /\ StyleOf(c) = "todo" =>
           NewOf(c).checked =
             (IF "checked" \in inp[c].given /\ inp[c].checked THEN "true" ELSE "false")
      /\ StyleOf(c) # "todo" => NewOf(c).checked = "absent"

(* C26 as the code has it: a list block always carries prop:checked; a    *)
(* todo list stores the requested value (false when checked is omitted), a *)
(* bulleted or numbered list stores false whatever was requested.          *)
C26_TodoStoresChecked ==
  \A c \in Solo :
    HasBuilt(c) /\ KindOf(c) = "list" =>
      /\ StyleOf(c) = "todo" =>
           NewOf(c).checked =
             (IF "checked" \in inp[c].given /\ inp[c].checked THEN "true" ELSE "false")
      /\ StyleOf(c) # "todo" => NewOf(c).checked = "false"

(* A todo list asked for with checked = true was stored checked, and the   *)
(* call succeeded.                                                         *)
C26_Witness ==
  /\ result["A"] = "ok" /\ inp["A"].type = "list" /\ inp["A"].given = {"style", "checked"}
  /\ inp["A"].style = "todo" /\ inp["A"].checked
  /\ BlockIn(sdocs[PageDoc].r, NewBlock("A"))
  /\ findBlockById(sdocs[PageDoc].r, NewBlock("A")).checked = "true"

(* The children of a block of r, as ids.                                  *)
KidsOf(r, id) == childIdsFrom(ChildrenOf(r, id))

Occurrences(seq, v) == Cardinality({k \in DOMAIN seq : seq[k] = v})

(* r is a tree: no two blocks share an id; a page block has no parent; the *)
(* parent of every other block exists and lists the block exactly once;    *)
(* and no id is listed by two blocks.                                      *)
IsTree(r) ==
  /\ \A b, x \in r.blocks : b.id = x.id => b = x
  /\ \A b \in r.blocks :
       IF b.flavour = "affine:page" THEN b.parent = NoBlock
       ELSE BlockIn(r, b.parent) /\ Occurrences(KidsOf(r, b.parent), b.id) = 1
  /\ \A b, x \in r.blocks :
       b.id # x.id => SeqToSet(KidsOf(r, b.id)) \cap SeqToSet(KidsOf(r, x.id)) = {}

(* C27: after successful create_doc and append_block operations of one     *)
(* client, one after the other, every stored document is a tree: block ids *)
(* are unique, the page has no parent, every other block's parent exists   *)
(* and lists it exactly once, and no id is in the children of two blocks.  *)
C27_DocumentIsTree ==
  \A d \in DocIds : sdocs[d].exists => IsTree(sdocs[d].r)

(* create_doc and then an append_block under the new document's note have  *)
(* both succeeded, and the stored document holds the appended block.       *)
C27_Witness ==
  /\ inp["A"].kind = "create_doc" /\ result["A"] = "ok" /\ result["B"] = "ok"
  /\ inp["B"].docId = NewDocId("A") /\ inp["B"].placement.parentId = GenId("A", 3)
  /\ BlockIn(sdocs[NewDocId("A")].r, NewBlock("B"))
  /\ Occurrences(KidsOf(sdocs[NewDocId("A")].r, GenId("A", 3)), NewBlock("B")) = 1

(* How often the promise of a request was settled in a history: by an     *)
(* acknowledgement of either kind or by its timer.                         *)
Settled(tr, req) ==
  Count(tr, <<"ack", req>>) + Count(tr, <<"missing", req>>) + Count(tr, <<"nack", req>>)
    + Count(tr, <<"timeout", req>>)

ConnectSettled(tr) ==
  Count(tr, <<"connect", "">>) + Count(tr, <<"connect_error", "">>)
    + Count(tr, <<"connect_timeout", "">>)

Prefix(tr, i) == SubSeq(tr, 1, i)

(* Every promise is settled at most once, and a timer only rejects a       *)
(* promise that no acknowledgement has settled.                            *)
SettledOnce(c) ==
  /\ ConnectSettled(trace[c]) <= Count(trace[c], <<"open", "">>)
  /\ \A req \in {JOIN, LOAD, PUSH} :
       /\ Settled(trace[c], req) <= Count(trace[c], <<"emit", req>>)
       /\ \A i \in DOMAIN trace[c] :
            trace[c][i] = <<"timeout", req>> =>
              Settled(Prefix(trace[c], i - 1), req) <
                Count(Prefix(trace[c], i - 1), <<"emit", req>>)
  /\ pc[c] = "returned" /\ failAt[c] \in {"connect", JOIN, LOAD, PUSH} => result[c] = "fail"

(* Once the call has returned, nothing that arrives changes its outcome or *)
(* makes it emit.                                                          *)
OutcomeKept(c) ==
  pc[c] = "returned" =>
    /\ pc'[c] = "returned" /\ result'[c] = result[c] /\ failAt'[c] = failAt[c]
    /\ err'[c] = err[c] /\ trace'[c] = trace[c] /\ sock'[c] = sock[c]
    /\ Len(wire'[c]) <= Len(wire[c])

(* C28: the promises of connect, join, load and push settle exactly once:  *)
(* after a timeout a late acknowledgement or connect event changes nothing *)
(* and triggers no request; after an acknowledgement the timer does not    *)
(* reject; a call that failed on a push timeout stays failed when the      *)
(* server applies the push afterwards.                                     *)
C28_SettlesOnce ==
  /\ [](\A c \in Clients : SettledOnce(c))
  /\ [][\A c \in Clients : OutcomeKept(c)]_vars

(* A call failed on the timeout of its push, and the server has applied    *)
(* that push since.                                                        *)
C28_Witness ==
  /\ pc["A"] = "returned" /\ result["A"] = "fail" /\ failAt["A"] = PUSH
  /\ err["A"] = "timeout" /\ wire["A"] = <<>> /\ Len(applied["A"]) = 1
  /\ inp["A"].kind = "append_block" /\ BlockIn(sdocs[PageDoc].r, NewBlock("A"))

(* The note or surface a call made, if any.                               *)
MadeBy(c) == {b \in ldoc[c].blocks : b.id = GenId(c, 1)}

(* What a successful append_block of c has changed, relative to the        *)
(* snapshot it loaded.                                                     *)
FrameOfAppend(c) ==
  LET S      == Snapshot(c)
      D      == ldoc[c]
      nb     == NewOf(c)
      page   == findBlockIdByFlavour(S, "affine:page")
      owners == {b.id : b \in D.blocks} \cup {a.owner : a \in D.arrs \cup S.arrs}
  IN
  /\ HasBuilt(c) /\ ~BlockIn(S, NewBlock(c))
  /\ S.blocks \subseteq D.blocks
  /\ D.blocks \ S.blocks = {nb} \cup MadeBy(c)
  /\ \E i \in 0..Len(ChildrenOf(S, nb.parent)) :
       ChildrenOf(D, nb.parent) = InsertAt(ChildrenOf(S, nb.parent), i, NewBlock(c))
  /\ MadeBy(c) # {} =>
       /\ ByDefault(c) /\ nb.parent = GenId(c, 1) /\ page # NoBlock
       /\ \A b \in MadeBy(c) :
            /\ b.flavour = ContainerOf(inp[c].type)
            /\ b.flavour \in {"affine:note", "affine:surface"}
            /\ b.parent = page
            /\ findBlockIdByFlavour(S, b.flavour) = NoBlock
       /\ ChildrenOf(D, page) = ChildrenOf(S, page) \o <<GenId(c, 1)>>
  /\ \A o \in owners :
       o # nb.parent /\ ~(MadeBy(c) # {} /\ o = page) => ChildrenOf(D, o) = ChildrenOf(S, o)
  /\ Count(trace[c], <<"emit", PUSH>>) = 1
  /\ applied[c] = <<inp[c].docId>>
  /\ sdocs[inp[c].docId].r = D

(* C29: a successful append_block changes, relative to the loaded          *)
(* snapshot, only the entry of the new block, the children of the target   *)
(* parent by one insertion and, when the implicit parent had to be made,   *)
(* the new note or surface and one entry appended to the page's children;  *)
(* every other block and children sequence is unchanged, and exactly one   *)
(* push is sent.                                                           *)
C29_AppendFrame ==
  \A c \in Solo :
    pc[c] = "returned" /\ inp[c].kind = "append_block" /\ result[c] = "ok" => FrameOfAppend(c)

(* A frame was appended by default to a page without a surface: the call   *)
(* made the surface under the page and put the frame under it.             *)
C29_Witness ==
  /\ result["A"] = "ok" /\ inp["A"].type = "frame" /\ ByDefault("A")
  /\ MadeBy("A") # {} /\ NewOf("A").parent = GenId("A", 1)
  /\ Len(ChildrenOf(ldoc["A"], PG)) = Len(ChildrenOf(Snapshot("A"), PG)) + 1
  /\ Snapshot("A").blocks # {}

(* A create_workspace call of c has returned.                             *)
WorkspaceDone(c) == inp[c].kind = "create_workspace" /\ pc[c] = "returned"

(* What went wrong on the socket of c, if anything.                        *)
SocketFailures(c) ==
  {i \in DOMAIN trace[c] :
     trace[c][i][1] \in {"connect_error", "connect_timeout", "nack", "timeout"}}

(* C30: create_workspace reports "failed" only when the creating request   *)
(* failed; once the request has succeeded it reports "success" when        *)
(* connect, join and the push of the first document all succeeded and      *)
(* "partial", for the same workspace and first document, when one of them  *)
(* failed; a socket that was opened is disconnected when it returns.       *)
C30_WorkspaceStatus ==
  \A c \in Solo :
    WorkspaceDone(c) =>
      /\ result[c] \in {"success", "partial", "failed"}
      /\ result[c] = "failed" <=> Count(trace[c], <<"fetch_error", "">>) = 1
      /\ result[c] = "failed" => sock[c] = "none" /\ Count(trace[c], <<"open", "">>) = 0
      /\ Count(trace[c], <<"response", "">>) = 1 =>
           /\ result[c] \in {"success", "partial"}
           /\ result[c] = "success" <=>
                /\ Count(trace[c], <<"connect", "">>) = 1
                /\ Count(trace[c], <<"ack", JOIN>>) = 1
                /\ Count(trace[c], <<"ack", PUSH>>) = 1
           /\ result[c] = "partial" <=> SocketFailures(c) # {}
           /\ sdocs[WsDoc].exists /\ Catalog(sdocs[WsDoc].r) = <<NewDocId(c)>>
           /\ \A i \in DOMAIN trace[c] :
                trace[c][i] = <<"emit", PUSH>> =>
                  /\ Count(trace[c], <<"emit", PUSH>>) = 1
                  /\ \A d \in SeqToSet(applied[c]) : d = NewDocId(c)
           /\ result[c] = "success" => sdocs[NewDocId(c)] = Stored(ldoc[c])
           /\ sock[c] = "closed" /\ Last(trace[c]) = <<"disconnect", "">>

(* The workspace was created, the push of its first document timed out,    *)
(* and the call reported "partial" with the socket disconnected.           *)
C30_Witness ==
  /\ WorkspaceDone("A") /\ result["A"] = "partial" /\ failAt["A"] = PUSH
  /\ err["A"] = "timeout" /\ sock["A"] = "closed" /\ sdocs[WsDoc].exists

====
